---- MODULE Spec2Model ----
(***************************************************************************)
(* Route computation engine of VitalPath (backend/app/algorithm/router.py) *)
(* as a state machine.  These groups of state are modelled:                *)
(*   - the shortest-path functions applied to one graph (SpecPath),        *)
(*   - the persistent worker and its line protocol (SpecBridge),           *)
(*   - the route handler with the graph cache and the tree cache           *)
(*     (Spec, SpecCache),                                                  *)
(*   - the event loop that runs the request handlers (SpecLoop),           *)
(*   - the creation and use of the persistent worker (SpecRunner),         *)
(*   - the blocked-edge filter, the cumulative sequences and the           *)
(*     downsampling applied to one input (SpecFilter, SpecCum, SpecSample).*)
(***************************************************************************)
EXTENDS Integers, Sequences, FiniteSets, TLC

VARIABLES
    G,          \* SpecPath: the working graph, a set of edges [u, v, k, len]
    src,        \* SpecPath: source node (orig_node)
    dst,        \* SpecPath: target node (dest_node / msh_node)
    nxTie,      \* SpecPath: the path nx.shortest_path returns for (G, src, dst)
    res,        \* SpecPath: the outcome of the last function applied
    proc,       \* SpecBridge: the persistent worker process, "running" or "exited"
    lock,       \* SpecBridge: the holder of _BmSsspServerRunner.lock, or None
    stdinQ,     \* SpecBridge: request lines written to the worker and not yet answered
    stdoutQ,    \* SpecBridge: response lines the worker wrote that no thread has read
    readers,    \* SpecBridge: calls whose reader thread is blocked in pipe.readline()
    call,       \* SpecBridge: each caller's position in _bmsssp_path / call
    world,      \* Spec: the road network the map-data source serves
    graphCache, \* Spec: the lru_cache of _load_graph_cached, least recently used first
    msh_spt_cache, \* Spec: _msh_spt_cache, bbox_key -> (msh_node, pred, dist)
    last,       \* Spec: the request handled last and what calculate_route did for it
    recent,     \* Spec: the corridors requested so far, the most recently requested last
    nkeys,      \* SpecCache: how many corridors have been requested so far
    nhits,      \* SpecCache: how many requests went to a corridor requested before
    running,    \* SpecLoop: the request whose handler the event-loop thread executes, or None
    rq,         \* SpecLoop: each request's kind and position
    useServer,  \* SpecRunner: BMSSSP_USE_SERVER is not "0"/"false"/"False"
    serverExists, \* SpecRunner: os.path.exists(server_path)
    BMSSSP_RUNNER, \* SpecRunner: _BMSSSP_RUNNER, None or the handle of a spawned worker
    initLock,   \* SpecRunner: the holder of _BMSSSP_RUNNER_INIT_LOCK, or None
    spawned,    \* SpecRunner: how many persistent worker processes were spawned
    exited,     \* SpecRunner: the handles whose worker process has exited
    thr,        \* SpecRunner: each thread's position in _bmsssp_path
    fin,        \* SpecFilter: the graph and the blocked_points passed to the filter
    fout,       \* SpecFilter: what the filter returned
    hops,       \* SpecCum: the edges of the path, each with its geometry and speed
    dropped,    \* SpecCum: the edge span left out of edges_meta (0: none)
    cum,        \* SpecCum: the polyline, the spans and the cumulative sequences
    segs,       \* SpecSample: the segment list
    max_n,      \* SpecSample: the cap
    sampled,    \* SpecSample: what _downsample_segments returned
    turn,      \* SpecManeuver: the bearings of two consecutive edges
    man,       \* SpecManeuver: the bearing delta and its maneuver
    emeta,     \* SpecSteps: edges_meta and cum_dist as _build_steps receives them
    nav,       \* SpecSteps: the steps returned
    trip,      \* SpecTrip: the edges of a path
    itin,      \* SpecTrip: the timeline and the steps of the path
    net,       \* SpecFault: the map-data source can be reached
    loadedKeys, \* SpecFault: the corridors whose graph the graph cache holds
    http,      \* SpecFault: the responses sent so far, oldest first
    ovin,      \* SpecOverlay: the edges of the cached graph and the cap
    ovout      \* SpecOverlay: the background-network lists returned so far

pathVars == <<G, src, dst, nxTie, res>>

bridgeVars == <<proc, lock, stdinQ, stdoutQ, readers, call>>

routeVars == <<world, graphCache, msh_spt_cache, last, recent, nkeys, nhits>>

loopVars == <<running, rq>>

runnerVars == <<useServer, serverExists, BMSSSP_RUNNER, initLock, spawned, exited, thr>>

filterVars == <<fin, fout>>

cumVars == <<hops, dropped, cum>>

extraVars == <<net, loadedKeys, http, ovin, ovout>>

stepVars == <<turn, man, emeta, nav, trip, itin>>

sampleVars == <<segs, max_n, sampled>>

\* the state of the specifications that follow Spec and SpecCache
otherVars == <<loopVars, runnerVars, filterVars, cumVars, sampleVars, stepVars, extraVars>>

vars == <<G, src, dst, nxTie, res, proc, lock, stdinQ, stdoutQ, readers, call,
          world, graphCache, msh_spt_cache, last, recent, nkeys, nhits,
          running, rq, useServer, serverExists, BMSSSP_RUNNER, initLock, spawned, exited, thr,
          fin, fout, hops, dropped, cum, segs, max_n, sampled,
          turn, man, emeta, nav, trip, itin,
          net, loadedKeys, http, ovin, ovout>>

(***************************************************************************)
(* Graphs.  A MultiDiGraph is its node set Nodes and a set of edge records *)
(* [u, v, k, len]: k is the key of a parallel edge, len its "length".      *)
(***************************************************************************)
Nodes == {1, 2, 3, 4}

None == 0

MaxLen == 2

\* Candidate edges <<u, v, k>> of the graphs SpecPath draws: a diamond
\* 1->{2,3}->4 with a parallel edge 1->2 and a cross edge 3->2.
EdgeSlots == {<<1, 2, 0>>, <<1, 2, 1>>, <<1, 3, 0>>, <<2, 4, 0>>, <<3, 4, 0>>, <<3, 2, 0>>}

Successors(Gr, u) == {e.v : e \in {f \in Gr : f.u = u}}

HasEdge(Gr, u, v) == \E e \in Gr : e.u = u /\ e.v = v

\* min(edge_dict.keys(), key=length) followed by edge_dict[best_key]["length"]
BestLength(Gr, u, v) ==
    LET ls == {e.len : e \in {f \in Gr : f.u = u /\ f.v = v}}
    IN  CHOOSE l \in ls : \A m \in ls : l <= m

ReverseViewForgotten(Gr) == Gr

\* G.reverse(copy=False): every edge u->v seen as v->u
ReverseView(Gr) == {[u |-> e.v, v |-> e.u, k |-> e.k, len |-> e.len] : e \in Gr}

HeapPopByNode(h) ==
    CHOOSE e \in h : \A f \in h : e[2] < f[2] \/ (e[2] = f[2] /\ e[1] <= f[1])

\* heapq.heappop on (distance, node) tuples: smallest distance, then smallest node
HeapPop(h) ==
    CHOOSE e \in h : \A f \in h : e[1] < f[1] \/ (e[1] = f[1] /\ e[2] <= f[2])

\* The body of the for-loop over the neighbours of a popped node u at distance d.
\* Each neighbour is relaxed independently of the others.
RelaxNeighbours(Gr, st, u, d, rest) ==
    LET vis == st.visited \cup {u}
        R   == {v \in Successors(Gr, u) \ vis :
                   v \notin DOMAIN st.dist \/ d + BestLength(Gr, u, v) < st.dist[v]}
        nd  == [v \in (DOMAIN st.dist) \cup R |->
                   IF v \in R THEN d + BestLength(Gr, u, v) ELSE st.dist[v]]
        np  == [v \in (DOMAIN st.pred) \cup R |-> IF v \in R THEN u ELSE st.pred[v]]
    IN  [dist |-> nd, pred |-> np, visited |-> vis,
         heap |-> rest \cup {<<nd[v], v>> : v \in R}]

SearchStart(s) ==
    [dist |-> [n \in {s} |-> 0], pred |-> [n \in {s} |-> None],
     visited |-> {}, heap |-> {<<0, s>>}]

RECURSIVE DijkstraLoop(_, _, _)
\* while heap: pop; skip visited; stop at the target; relax the neighbours
DijkstraLoop(Gr, target, st) ==
    IF st.heap = {} THEN st
    ELSE LET top  == HeapPop(st.heap)
             rest == st.heap \ {top}
         IN  IF top[2] \in st.visited
             THEN DijkstraLoop(Gr, target, [st EXCEPT !.heap = rest])
             ELSE IF top[2] = target
                  THEN [st EXCEPT !.heap = rest, !.visited = @ \cup {top[2]}]
                  ELSE DijkstraLoop(Gr, target, RelaxNeighbours(Gr, st, top[2], top[1], rest))

RECURSIVE WalkBack(_, _, _)
\* cur = target; while cur is not None: path.append(cur); cur = pred[cur]; reverse
WalkBack(pred, cur, acc) ==
    IF cur = None THEN acc ELSE WalkBack(pred, pred[cur], <<cur>> \o acc)

Failure(e) == [err |-> e, path |-> <<>>]

Found(p) == [err |-> "none", path |-> p]

DijkstraReturningEmpty(Gr, s, t) ==
    LET st == DijkstraLoop(Gr, t, SearchStart(s))
    IN  IF t \notin DOMAIN st.pred
        THEN Found(<<>>)
        ELSE Found(WalkBack(st.pred, t, <<>>))

\* _dijkstra_with_exploration: the search, then the path walked back from the
\* target, or RuntimeError("no path found via dijkstra")
DijkstraWithExploration(Gr, s, t) ==
    LET st == DijkstraLoop(Gr, t, SearchStart(s))
    IN  IF t \notin DOMAIN st.pred
        THEN Failure("NoPathFound")
        ELSE Found(WalkBack(st.pred, t, <<>>))

RECURSIVE MshTreeLoop(_, _)
\* the same loop on the reversed graph, run until the heap is empty
MshTreeLoop(R, st) ==
    IF st.heap = {} THEN st
    ELSE LET top  == HeapPop(st.heap)
             rest == st.heap \ {top}
         IN  IF top[2] \in st.visited
             THEN MshTreeLoop(R, [st EXCEPT !.heap = rest])
             ELSE MshTreeLoop(R, RelaxNeighbours(R, st, top[2], top[1], rest))

\* The tree _get_msh_shortest_path_tree builds on a cache miss
BuildMshTree(Gr, msh_node) ==
    LET st == MshTreeLoop(ReverseView(Gr), SearchStart(msh_node))
    IN  [msh_node |-> msh_node, pred |-> st.pred, dist |-> st.dist]

RECURSIVE ReconstructWalk(_, _, _, _)
ReconstructWalk(pred, cur, msh_node, path) ==
    IF cur = msh_node THEN Found(path)
    ELSE LET nxt == IF cur \in DOMAIN pred THEN pred[cur] ELSE None
         IN  IF nxt = None THEN Failure("NoPrecomputedPath")
             ELSE IF \E i \in 1..Len(path) : path[i] = nxt
                  THEN Failure("CycleDetected")
                  ELSE ReconstructWalk(pred, nxt, msh_node, Append(path, nxt))

ReconstructFromMshCache(pred, source_node, msh_node) ==
    ReconstructWalk(pred, source_node, msh_node, <<source_node>>)

(***************************************************************************)
(* nx.shortest_path(G, s, t, weight="length") is library code: it returns  *)
(* one minimum-weight path (parallel edges count with their smallest       *)
(* length) and raises NetworkXNoPath when there is none.  Which of several *)
(* equal-length paths it returns is fixed by the library and the order in  *)
(* which the graph was filled, not by this repository: NxShortestPaths is  *)
(* the set of paths it may return.                                         *)
(***************************************************************************)
RECURSIVE PathLength(_, _)
PathLength(Gr, p) ==
    IF Len(p) <= 1 THEN 0
    ELSE BestLength(Gr, p[1], p[2]) + PathLength(Gr, Tail(p))

RECURSIVE SimplePathsFrom(_, _, _, _)
SimplePathsFrom(Gr, cur, t, seen) ==
    IF cur = t THEN {<<t>>}
    ELSE UNION {{<<cur>> \o p : p \in SimplePathsFrom(Gr, v, t, seen \cup {v})} :
                   v \in Successors(Gr, cur) \ seen}

SimplePaths(Gr, s, t) == SimplePathsFrom(Gr, s, t, {s})

NxShortestPaths(Gr, s, t) ==
    LET ps == SimplePaths(Gr, s, t)
    IN  {p \in ps : \A q \in ps : PathLength(Gr, p) <= PathLength(Gr, q)}

NxOutcomes(Gr, s, t) ==
    IF SimplePaths(Gr, s, t) = {} THEN {Failure("NetworkXNoPath")}
    ELSE {Found(p) : p \in NxShortestPaths(Gr, s, t)}

Reachable(Gr, s, t) == SimplePaths(Gr, s, t) # {}

(***************************************************************************)
(* External Algorithm Bridge, the part of _bmsssp_path after the worker    *)
(* has answered.  A response is [kind, pred]: what runner.call raised or   *)
(* returned.  _edge_list_from_graph numbers the nodes 0..n-1 in the order  *)
(* of G.nodes; node ids are taken in ascending order.                      *)
(***************************************************************************)
NodeIndex(n) == n - 1

NodeAt(i) == i + 1

NodeCount == Cardinality(Nodes)

ResponseKinds == {"timeout", "exited", "empty", "nonjson", "nopred", "nonlist", "pred"}

NoArray == <<>>

\* pred[i] of the 0-based list the worker sent
PredAt(pred, i) == pred[i + 1]

RECURSIVE WalkPredecessors(_, _, _, _, _)
\* while cur != -1 and cur not in seen: append; stop at src_i; cur = pred[cur]
WalkPredecessors(pred, cur, src_i, seen, path_idx) ==
    IF cur = -1 \/ cur \in seen THEN path_idx
    ELSE IF cur = src_i THEN Append(path_idx, cur)
         ELSE WalkPredecessors(pred, PredAt(pred, cur), src_i,
                               seen \cup {cur}, Append(path_idx, cur))

ReverseSeq(s) == [i \in 1..Len(s) |-> s[Len(s) + 1 - i]]

\* lines 621-656: the path read off the predecessor list, or the error raised
PathFromPredecessors(pred, s, t) ==
    LET path_idx == WalkPredecessors(pred, NodeIndex(t), NodeIndex(s), {}, <<>>)
    IN  IF path_idx = <<>> \/ path_idx[Len(path_idx)] # NodeIndex(s)
        THEN Failure("NoPathViaBmSssp")
        ELSE Found([i \in 1..Len(path_idx) |-> NodeAt(ReverseSeq(path_idx)[i])])

\* What the try block of _bmsssp_path ends with for a response of the worker
BridgeAttempt(s, t, resp) ==
    CASE resp.kind = "timeout" -> Failure("WorkerTimeout")
      [] resp.kind = "exited"  -> Failure("RunnerNotRunning")
      [] resp.kind = "empty"   -> Failure("EmptyOutput")
      [] resp.kind = "nonjson" -> Failure("JSONDecodeError")
      [] resp.kind = "nopred"  -> Failure("MissingPredecessors")
      [] resp.kind = "nonlist" -> Failure("MissingPredecessors")
      [] OTHER                 -> PathFromPredecessors(resp.pred, s, t)

\* except Exception: path = nx.shortest_path(G, source_node, target_node, weight="length")
BridgeFallback(nx) == nx

\* _bmsssp_path: [via, out]; via tells whether the worker's path or the fallback's is returned
BmSsspPath(Gr, s, t, include_exploration, resp, nx) ==
    LET tried == BridgeAttempt(s, t, resp)
    IN  IF tried.err = "none"
        THEN [via |-> "worker", out |-> tried]
        ELSE [via |-> "fallback", out |-> BridgeFallback(nx)]

\* calculate_route, lines 1102-1108: the built-in engine branch
BuiltinEngine(Gr, s, t, include_exploration, nx) ==
    IF include_exploration THEN DijkstraWithExploration(Gr, s, t) ELSE nx

\* The predecessor lists the worker is given to answer with in SpecPath: the
\* list of a single-source search from s, a list of -1, and a two-cycle at t.
SsspArray(Gr, s) ==
    LET st == MshTreeLoop(Gr, SearchStart(s))
    IN  [i \in 1..NodeCount |->
            IF NodeAt(i - 1) \in DOMAIN st.pred /\ st.pred[NodeAt(i - 1)] # None
            THEN NodeIndex(st.pred[NodeAt(i - 1)]) ELSE -1]

UnreachedArray == [i \in 1..NodeCount |-> -1]

CyclicArray(s, t) ==
    LET x == CHOOSE n \in Nodes : n # t /\ (n # s \/ s = t)
    IN  [i \in 1..NodeCount |->
            IF i - 1 = NodeIndex(t) THEN NodeIndex(x)
            ELSE IF i - 1 = NodeIndex(x) THEN NodeIndex(t) ELSE -1]

WorkerResponses(Gr, s, t) ==
    {[kind |-> k, pred |-> NoArray] : k \in ResponseKinds \ {"pred"}}
    \cup {[kind |-> "pred", pred |-> a] :
             a \in {SsspArray(Gr, s), UnreachedArray, CyclicArray(s, t)}}

(***************************************************************************)
(* SpecPath: the shortest-path functions applied to one graph.             *)
(***************************************************************************)
\* Every graph that gives each edge slot no edge or an edge of length 1..MaxLen
SlotGraphs ==
    {{[u |-> sl[1], v |-> sl[2], k |-> sl[3], len |-> f[sl]] :
          sl \in {x \in EdgeSlots : f[x] # 0}} : f \in [EdgeSlots -> 0..MaxLen]}

NoResult == [op |-> "none", incl |-> FALSE, resp |-> "none", via |-> "none",
             out |-> Failure("none")]

PathIdle ==
    /\ G = {}
    /\ src = None
    /\ dst = None
    /\ nxTie = Failure("none")
    /\ res = NoResult

BridgeIdle ==
    /\ proc = "exited"
    /\ lock = None
    /\ stdinQ = <<>>
    /\ stdoutQ = <<>>
    /\ readers = {}
    /\ call = <<>>

RouteIdle ==
    /\ world = {}
    /\ graphCache = <<>>
    /\ msh_spt_cache = <<>>
    /\ last = <<>>
    /\ recent = <<>>
    /\ nkeys = 0
    /\ nhits = 0

LoopIdle ==
    /\ running = None
    /\ rq = <<>>

RunnerIdle ==
    /\ useServer = FALSE
    /\ serverExists = FALSE
    /\ BMSSSP_RUNNER = None
    /\ initLock = None
    /\ spawned = 0
    /\ exited = {}
    /\ thr = <<>>

FilterIdle ==
    /\ fin = <<>>
    /\ fout = <<>>

CumIdle ==
    /\ hops = <<>>
    /\ dropped = 0
    /\ cum = <<>>

ExtraIdle ==
    /\ net = FALSE
    /\ loadedKeys = {}
    /\ http = <<>>
    /\ ovin = <<>>
    /\ ovout = <<>>

StepIdle ==
    /\ turn = <<>>
    /\ man = <<>>
    /\ emeta = <<>>
    /\ nav = <<>>
    /\ trip = <<>>
    /\ itin = <<>>

SampleIdle ==
    /\ segs = <<>>
    /\ max_n = 0
    /\ sampled = <<>>

OtherIdle ==
    /\ LoopIdle
    /\ RunnerIdle
    /\ FilterIdle
    /\ CumIdle
    /\ SampleIdle
    /\ StepIdle
    /\ ExtraIdle

PathInit ==
    /\ BridgeIdle
    /\ RouteIdle
    /\ OtherIdle
    /\ G \in SlotGraphs
    /\ src \in Nodes
    /\ dst \in Nodes
    /\ nxTie \in NxOutcomes(G, src, dst)
    /\ res = NoResult

\* the fast path of calculate_route on a tree built for dst (lines 1085-1086)
ApplyTree ==
    /\ res.op = "none"
    /\ res' = [NoResult EXCEPT !.op = "tree",
                  !.out = ReconstructFromMshCache(BuildMshTree(G, dst).pred, src, dst)]
    /\ UNCHANGED <<G, src, dst, nxTie, bridgeVars, routeVars, otherVars>>

ApplyBuiltin(incl) ==
    /\ res.op = "none"
    /\ res' = [NoResult EXCEPT !.op = "builtin", !.incl = incl,
                  !.out = BuiltinEngine(G, src, dst, incl, nxTie)]
    /\ UNCHANGED <<G, src, dst, nxTie, bridgeVars, routeVars, otherVars>>

ApplyBridge(incl, resp) ==
    /\ res.op = "none"
    /\ LET r == BmSsspPath(G, src, dst, incl, resp, nxTie)
       IN  res' = [op |-> "bridge", incl |-> incl, resp |-> resp.kind,
                   via |-> r.via, out |-> r.out]
    /\ UNCHANGED <<G, src, dst, nxTie, bridgeVars, routeVars, otherVars>>

PathNext ==
    \/ ApplyTree
    \/ \E incl \in BOOLEAN : ApplyBuiltin(incl)
    \/ \E incl \in BOOLEAN : \E resp \in WorkerResponses(G, src, dst) : ApplyBridge(incl, resp)

SpecPath == PathInit /\ [][PathNext]_vars

IsPathIn(Gr, p, s, t) ==
    /\ Len(p) >= 1
    /\ p[1] = s
    /\ p[Len(p)] = t
    /\ \A i \in 1..(Len(p) - 1) : HasEdge(Gr, p[i], p[i + 1])

\* C1: whenever the destination is reachable from the source, the path walked
\* off the reverse tree built for the destination starts at the source, ends
\* at the destination, and is as long as the path forward Dijkstra returns.
C1_TreeMatchesDijkstra ==
    (res.op = "tree" /\ Reachable(G, src, dst)) =>
        /\ res.out.err = "none"
        /\ IsPathIn(G, res.out.path, src, dst)
        /\ DijkstraWithExploration(G, src, dst).err = "none"
        /\ PathLength(G, res.out.path)
              = PathLength(G, DijkstraWithExploration(G, src, dst).path)

\* a tree walk of two hops or more that differs from the forward path
C1_Witness ==
    /\ res.op = "tree"
    /\ Reachable(G, src, dst)
    /\ Len(res.out.path) >= 3
    /\ res.out.path # DijkstraWithExploration(G, src, dst).path

\* C2: after a timeout of the worker, _bmsssp_path returns the node path the
\* built-in engine branch returns for the same graph, source, target and
\* include_exploration flag.
C2_TimeoutSameAsBuiltin ==
    (res.op = "bridge" /\ res.resp = "timeout" /\ res.out.err = "none") =>
        res.out.path = BuiltinEngine(G, src, dst, res.incl, nxTie).path

(***************************************************************************)
(* SpecBridge: the persistent worker (_BmSsspServerRunner) and the calls   *)
(* of _bmsssp_path that go through it.  The worker is an external process: *)
(* it answers the request lines of its stdin in order, one line each, with *)
(* a line of any kind, at any time, and it may exit.                       *)
(***************************************************************************)
MaxCallers == 2

Callers == 1..MaxCallers

LineKinds == {"pred_ok", "pred_bad", "nopred", "nonjson", "empty"}

NoLine == [for |-> None, kind |-> "none"]

EofLine == [for |-> None, kind |-> "empty"]

NewCall == [pc |-> "idle", line |-> NoLine, failed |-> "none", via |-> "none"]

BridgeInit ==
    /\ PathIdle
    /\ RouteIdle
    /\ OtherIdle
    /\ proc = "running"
    /\ lock = None
    /\ stdinQ = <<>>
    /\ stdoutQ = <<>>
    /\ readers = {}
    /\ call = [c \in Callers |-> NewCall]

\* the exception leaves _bmsssp_path's try block: except Exception -> fallback
Raise(c, e) == [call[c] EXCEPT !.pc = "fallback", !.failed = e]

\* call(), line 537: if self.proc.poll() is not None: raise RuntimeError
Poll(c) ==
    /\ call[c].pc = "idle"
    /\ call' = [call EXCEPT ![c] = IF proc = "exited" THEN Raise(c, "exited")
                                   ELSE [call[c] EXCEPT !.pc = "acquire"]]
    /\ UNCHANGED <<proc, lock, stdinQ, stdoutQ, readers, pathVars, routeVars, otherVars>>

\* line 540: with self.lock
Acquire(c) ==
    /\ call[c].pc = "acquire"
    /\ lock = None
    /\ lock' = c
    /\ call' = [call EXCEPT ![c].pc = "write"]
    /\ UNCHANGED <<proc, stdinQ, stdoutQ, readers, pathVars, routeVars, otherVars>>

\* lines 541-543: write the request line, flush, start the reader thread and
\* join it with the timeout.  Writing to an exited worker raises BrokenPipeError.
WriteRequest(c) ==
    /\ call[c].pc = "write"
    /\ lock = c
    /\ IF proc = "exited"
       THEN /\ call' = [call EXCEPT ![c] = Raise(c, "brokenpipe")]
            /\ lock' = None
            /\ UNCHANGED <<stdinQ, readers>>
       ELSE /\ stdinQ' = Append(stdinQ, c)
            /\ readers' = readers \cup {c}
            /\ call' = [call EXCEPT ![c].pc = "wait"]
            /\ UNCHANGED lock
    /\ UNCHANGED <<proc, stdoutQ, pathVars, routeVars, otherVars>>

\* _readline_with_timeout's thread t returns from pipe.readline(): the next line
\* of the pipe, or "" at end of file.  Its out list is read only by a join that
\* has not timed out yet.  Several threads may be blocked on the one pipe.
ReaderGets(t) ==
    /\ t \in readers
    /\ stdoutQ # <<>> \/ proc = "exited"
    /\ LET l == IF stdoutQ # <<>> THEN Head(stdoutQ) ELSE EofLine
       IN  call' = IF call[t].pc = "wait"
                   THEN [call EXCEPT ![t].pc = "gotline", ![t].line = l]
                   ELSE call
    /\ stdoutQ' = IF stdoutQ # <<>> THEN Tail(stdoutQ) ELSE stdoutQ
    /\ readers' = readers \ {t}
    /\ UNCHANGED <<proc, lock, stdinQ, pathVars, routeVars, otherVars>>

\* lines 511-513: t.join(timeout_s) returns with out still empty -> TimeoutError;
\* the with block releases the lock, the reader thread stays blocked.
Timeout(c) ==
    /\ call[c].pc = "wait"
    /\ lock = c
    /\ call' = [call EXCEPT ![c] = Raise(c, "timeout")]
    /\ lock' = None
    /\ UNCHANGED <<proc, stdinQ, stdoutQ, readers, pathVars, routeVars, otherVars>>

\* lines 543-553 and 621-656: strip the line; an empty one goes on to read
\* stderr under the lock; otherwise json.loads, the predecessors check and
\* the backward walk.
HandleLine(c) ==
    /\ call[c].pc = "gotline"
    /\ lock = c
    /\ LET k == call[c].line.kind
       IN  IF k = "empty"
           THEN /\ call' = [call EXCEPT ![c].pc = "stderr", ![c].failed = "empty"]
                /\ UNCHANGED lock
           ELSE /\ lock' = None
                /\ call' = [call EXCEPT ![c] =
                      IF k = "pred_ok"
                      THEN [call[c] EXCEPT !.pc = "done", !.via = "worker"]
                      ELSE Raise(c, k)]
    /\ UNCHANGED <<proc, stdinQ, stdoutQ, readers, pathVars, routeVars, otherVars>>

\* lines 546-552: err = self.proc.stderr.read() returns at the end of file of the
\* worker's stderr, that is once the worker has exited; then RuntimeError.
ReadStderr(c) ==
    /\ call[c].pc = "stderr"
    /\ lock = c
    /\ proc = "exited"
    /\ call' = [call EXCEPT ![c].pc = "fallback"]
    /\ lock' = None
    /\ UNCHANGED <<proc, stdinQ, stdoutQ, readers, pathVars, routeVars, otherVars>>

\* lines 658-661: the fallback search (the target is reachable in this specification)
Fallback(c) ==
    /\ call[c].pc = "fallback"
    /\ call' = [call EXCEPT ![c].pc = "done", ![c].via = "fallback"]
    /\ UNCHANGED <<proc, lock, stdinQ, stdoutQ, readers, pathVars, routeVars, otherVars>>

WorkerAnswer(k) ==
    /\ proc = "running"
    /\ stdinQ # <<>>
    /\ stdoutQ' = Append(stdoutQ, [for |-> Head(stdinQ), kind |-> k])
    /\ stdinQ' = Tail(stdinQ)
    /\ UNCHANGED <<proc, lock, readers, call, pathVars, routeVars, otherVars>>

WorkerExit ==
    /\ proc = "running"
    /\ proc' = "exited"
    /\ UNCHANGED <<lock, stdinQ, stdoutQ, readers, call, pathVars, routeVars, otherVars>>

CallStep(c) ==
    \/ Poll(c)
    \/ Acquire(c)
    \/ WriteRequest(c)
    \/ Timeout(c)
    \/ HandleLine(c)
    \/ ReadStderr(c)
    \/ Fallback(c)

BridgeNext ==
    \/ \E c \in Callers : CallStep(c)
    \/ \E t \in Callers : ReaderGets(t)
    \/ \E k \in LineKinds : WorkerAnswer(k)
    \/ WorkerExit

SpecBridge == BridgeInit /\ [][BridgeNext]_vars

\* Every step of a call is taken once it can be (the join times out after
\* timeout_s, a released lock is taken, a line in the pipe is read).  Nothing
\* makes the worker answer or exit.
SpecBridgeFair ==
    /\ BridgeInit
    /\ [][BridgeNext]_vars
    /\ \A c \in Callers : WF_vars(CallStep(c)) /\ WF_vars(ReaderGets(c))

\* Requests written to the worker whose response line no thread has consumed
Unconsumed == Len(stdinQ) + Len(stdoutQ)

\* C3: after every kind of worker failure the call ends with the path of the
\* built-in fallback.
C3_FailsClosed ==
    \A c \in Callers :
        (call[c].failed # "none") ~> (call[c].pc = "done" /\ call[c].via = "fallback")

\* C4: at most one request written to the worker has its response line still
\* unconsumed, and the line a call reads answers the request that call wrote.
C4_SingleInFlight ==
    /\ Unconsumed <= 1
    /\ \A c \in Callers :
          (call[c].line # NoLine /\ call[c].line.for # None) => call[c].line.for = c

(***************************************************************************)
(* The route handler (calculate_route) with the graph cache and the tree   *)
(* cache.  Coordinates are integers in units of 0.0001 degree, so that     *)
(* round(x, 3) is the rounding to a multiple of 10; one unit is taken as   *)
(* 10 m in both directions (the corridor is a few hundred metres wide), so *)
(* _haversine_m(a, b) < r reads 100 * DistSq(a, b) < r * r.                *)
(***************************************************************************)
MSH_LAT == 389185

MSH_LNG == -770195

MSH_MATCH_THRESHOLD == 20

PAD_DEG == 200

RADIUS_M == 100

GraphCacheMaxsize == 16

Point(lat, lng) == [lat |-> lat, lng |-> lng]

Abs(x) == IF x < 0 THEN -x ELSE x

Max2(a, b) == IF a >= b THEN a ELSE b

Min2(a, b) == IF a <= b THEN a ELSE b

\* G.nodes[n]["y"], G.nodes[n]["x"]
NodePos(n) ==
    CASE n = 1 -> Point(389155, -770195)
      [] n = 2 -> Point(389170, -770207)
      [] n = 3 -> Point(389158, -770183)
      [] OTHER -> Point(389185, -770195)

DistSq(a, b) == (a.lat - b.lat) * (a.lat - b.lat) + (a.lng - b.lng) * (a.lng - b.lng)

\* _haversine_m(a, b) < radius_m
HaversineBelow(a, b, radius_m) == 100 * DistSq(a, b) < radius_m * radius_m

\* _haversine_m(bp, ((u_lng + v_lng) / 2, (u_lat + v_lat) / 2)) < radius_m
MidpointBelow(bp, pu, pv, radius_m) ==
    25 * DistSq(Point(2 * bp.lat, 2 * bp.lng), Point(pu.lat + pv.lat, pu.lng + pv.lng))
        < radius_m * radius_m

\* _bbox_for_route: <<north, south, east, west>>
BBoxForRoute(start, end) ==
    <<Max2(start.lat, end.lat) + PAD_DEG, Min2(start.lat, end.lat) - PAD_DEG,
      Max2(start.lng, end.lng) + PAD_DEG, Min2(start.lng, end.lng) - PAD_DEG>>

\* round(x, 3): the nearest thousandth of a degree, a tie going to the even one
Round3(x) ==
    LET r    == x % 10
        down == x - r
    IN  IF r < 5 THEN down
        ELSE IF r > 5 THEN down + 10
        ELSE IF (down \div 10) % 2 = 0 THEN down ELSE down + 10

RoundBBox(b) == <<Round3(b[1]), Round3(b[2]), Round3(b[3]), Round3(b[4])>>

\* ox.graph_from_bbox(bbox, network_type="drive"): the part of the road network
\* inside the box (library and map-data source, outside the repository)
InBBox(p, key) == key[2] <= p.lat /\ p.lat <= key[1] /\ key[4] <= p.lng /\ p.lng <= key[3]

MapData(w, key) ==
    LET ns == {n \in Nodes : InBBox(NodePos(n), key)}
    IN  [nodes |-> ns, edges |-> {e \in w : e.u \in ns /\ e.v \in ns}]

CacheIndex(cache, key) ==
    IF \E i \in 1..Len(cache) : cache[i].key = key
    THEN CHOOSE i \in 1..Len(cache) : cache[i].key = key
    ELSE 0

RemoveAt(s, i) == SubSeq(s, 1, i - 1) \o SubSeq(s, i + 1, Len(s))

LoadWithoutRefresh(cache, key, w) ==
    LET i == CacheIndex(cache, key)
    IN  IF i # 0
        THEN [graph |-> cache[i].graph, hit |-> TRUE, cache |-> cache]
        ELSE [graph |-> MapData(w, key), hit |-> FALSE,
              cache |-> Append(IF Len(cache) >= GraphCacheMaxsize THEN Tail(cache) ELSE cache,
                               [key |-> key, graph |-> MapData(w, key)])]

LoadNeverStoring(cache, key, w) ==
    [graph |-> MapData(w, key), hit |-> FALSE, cache |-> cache]

\* @lru_cache(maxsize=16) around _load_graph_cached: a hit makes the entry the
\* most recently used one; a miss builds the graph, evicts the least recently
\* used entry of a full cache and stores the new graph as most recently used.
LoadGraphCached(cache, key, w) ==
    LET i == CacheIndex(cache, key)
    IN  IF i # 0
        THEN [graph |-> cache[i].graph, hit |-> TRUE,
              cache |-> Append(RemoveAt(cache, i), cache[i])]
        ELSE [graph |-> MapData(w, key), hit |-> FALSE,
              cache |-> Append(IF Len(cache) >= GraphCacheMaxsize THEN Tail(cache) ELSE cache,
                               [key |-> key, graph |-> MapData(w, key)])]

\* bp_tuples = [(blng, blat) for blat, blng in blocked_points]
BlockedTuples(blocked_points) ==
    {Point(blocked_points[i][1], blocked_points[i][2]) : i \in 1..Len(blocked_points)}

NearbyNodes(Gr, bps, radius_m) ==
    {n \in Gr.nodes : \E bp \in bps : HaversineBelow(bp, NodePos(n), radius_m)}

\* an edge scan without the nearby-node shortcut: every edge gets the three tests
EdgesToRemoveScanningAll(Gr, bps, radius_m) ==
    {e \in Gr.edges :
        \E bp \in bps :
            \/ HaversineBelow(bp, NodePos(e.u), radius_m)
            \/ MidpointBelow(bp, NodePos(e.u), NodePos(e.v), radius_m)
            \/ HaversineBelow(bp, NodePos(e.v), radius_m)}

EdgesToRemove(Gr, bps, radius_m) ==
    LET nearby == NearbyNodes(Gr, bps, radius_m)
    IN  {e \in Gr.edges :
            /\ e.u \in nearby \/ e.v \in nearby
            /\ \E bp \in bps :
                  \/ HaversineBelow(bp, NodePos(e.u), radius_m)
                  \/ MidpointBelow(bp, NodePos(e.u), NodePos(e.v), radius_m)
                  \/ HaversineBelow(bp, NodePos(e.v), radius_m)}

RemoveBlockedEdgesInPlace(Gr, blocked_points, radius_m) ==
    LET cut == [nodes |-> Gr.nodes,
                edges |-> Gr.edges \ EdgesToRemove(Gr, BlockedTuples(blocked_points), radius_m)]
    IN  [out |-> cut, arg |-> cut, copy |-> FALSE]

RemoveBlockedEdgesDroppingNodes(Gr, blocked_points, radius_m) ==
    IF blocked_points = <<>> THEN [out |-> Gr, arg |-> Gr, copy |-> FALSE]
    ELSE [out |-> [nodes |-> Gr.nodes \ NearbyNodes(Gr, BlockedTuples(blocked_points), radius_m),
                   edges |-> Gr.edges \ EdgesToRemove(Gr, BlockedTuples(blocked_points), radius_m)],
          arg |-> Gr, copy |-> TRUE]

RemoveBlockedEdgesAlwaysCopying(Gr, blocked_points, radius_m) ==
    [out |-> [nodes |-> Gr.nodes,
              edges |-> Gr.edges \ EdgesToRemove(Gr, BlockedTuples(blocked_points), radius_m)],
     arg |-> Gr, copy |-> TRUE]

\* _remove_blocked_edges: out is the graph returned, arg the graph object that
\* was passed in as it is after the call (the caller's cache holds that object),
\* copy tells whether out is a new object (G.copy()) or the object passed in.
RemoveBlockedEdges(Gr, blocked_points, radius_m) ==
    IF blocked_points = <<>> THEN [out |-> Gr, arg |-> Gr, copy |-> FALSE]
    ELSE [out |-> [nodes |-> Gr.nodes,
                   edges |-> Gr.edges \ EdgesToRemove(Gr, BlockedTuples(blocked_points), radius_m)],
          arg |-> Gr, copy |-> TRUE]

\* ox.nearest_nodes(G, X=lng, Y=lat): the closest node, the smallest id on a tie
NearestNode(Gr, p) ==
    CHOOSE n \in Gr.nodes :
        \A m \in Gr.nodes :
            DistSq(NodePos(n), p) < DistSq(NodePos(m), p)
            \/ (DistSq(NodePos(n), p) = DistSq(NodePos(m), p) /\ n <= m)

\* _is_msh_destination
IsMshDestination(end) ==
    Abs(end.lat - MSH_LAT) < MSH_MATCH_THRESHOLD /\ Abs(end.lng - MSH_LNG) < MSH_MATCH_THRESHOLD

UseMshCacheIgnoringClosures(req) ==
    req.algorithm = "dijkstra" /\ IsMshDestination(req.end)

\* lines 1076-1080
UseMshCache(req) ==
    /\ req.algorithm = "dijkstra"
    /\ IsMshDestination(req.end)
    /\ req.blocked_edges = <<>>

NoTree == [msh_node |-> None, pred |-> <<>>, dist |-> <<>>]

\* _get_msh_shortest_path_tree: the cached tree of the key, or a tree built
\* on G for the node nearest to the hospital and stored under the key
GetMshShortestPathTree(tcache, Gr, bbox_key) ==
    IF bbox_key \in DOMAIN tcache
    THEN [tree |-> tcache[bbox_key], cache |-> tcache]
    ELSE LET t == BuildMshTree(Gr.edges, NearestNode(Gr, Point(MSH_LAT, MSH_LNG)))
         IN  [tree |-> t, cache |-> tcache @@ (bbox_key :> t)]

RouteOutcomeSurfacing(req, Gr, orig, dest, walked, msh_node, resp, nx) ==
    IF UseMshCache(req)
    THEN [label |-> "msh_cache", dest |-> msh_node, via |-> "tree", out |-> walked]
    ELSE IF req.algorithm = "bmsssp"
         THEN LET r == BmSsspPath(Gr.edges, orig, dest, req.include_exploration, resp, nx)
              IN  [label |-> "bmsssp", dest |-> dest, via |-> r.via, out |-> r.out]
         ELSE [label |-> "dijkstra", dest |-> dest,
               via |-> IF req.include_exploration THEN "dijkstra" ELSE "networkx",
               out |-> BuiltinEngine(Gr.edges, orig, dest, req.include_exploration, nx)]

\* calculate_route, lines 1082-1108: the path and the algorithm label.  walked
\* is what _reconstruct_from_msh_cache gave when the fast path was tried; its
\* RuntimeError is caught and the request goes on without the tree.
RouteOutcome(req, Gr, orig, dest, walked, msh_node, resp, nx) ==
    IF UseMshCache(req) /\ walked.err = "none"
    THEN [label |-> "msh_cache", dest |-> msh_node, via |-> "tree", out |-> walked]
    ELSE IF req.algorithm = "bmsssp"
         THEN LET r == BmSsspPath(Gr.edges, orig, dest, req.include_exploration, resp, nx)
              IN  [label |-> "bmsssp", dest |-> dest, via |-> r.via, out |-> r.out]
         ELSE [label |-> "dijkstra", dest |-> dest,
               via |-> IF req.include_exploration THEN "dijkstra" ELSE "networkx",
               out |-> BuiltinEngine(Gr.edges, orig, dest, req.include_exploration, nx)]

\* The cache entry of key holds the graph object g
WithEntry(cache, key, g) ==
    [i \in 1..Len(cache) |-> IF cache[i].key = key THEN [key |-> key, graph |-> g] ELSE cache[i]]

\* Most recently requested corridors, oldest first (a record of the requests)
Touch(hist, key) ==
    LET i == IF \E j \in 1..Len(hist) : hist[j] = key
             THEN CHOOSE j \in 1..Len(hist) : hist[j] = key ELSE 0
    IN  Append(IF i = 0 THEN hist ELSE RemoveAt(hist, i), key)

NoResponse == [kind |-> "none", pred |-> NoArray]

\* the answers the worker gives in Spec: a timeout or the list of a correct search
RouteResponses(req, Gr, s) ==
    IF req.algorithm = "bmsssp"
    THEN {[kind |-> "timeout", pred |-> NoArray], [kind |-> "pred", pred |-> SsspArray(Gr.edges, s)]}
    ELSE {NoResponse}

\* One request through calculate_route (an async def without an await: the
\* event loop runs it from its first line to its return before any other).
\* Each \E over a one-element set names a local of the handler.
HandleRequest(req) ==
    \E key \in {RoundBBox(BBoxForRoute(req.start, req.end))} :
    \E loaded \in {LoadGraphCached(graphCache, key, world)} :
    \E cut \in {IF req.blocked_edges # <<>>
                THEN RemoveBlockedEdges(loaded.graph, req.blocked_edges, RADIUS_M)
                ELSE [out |-> loaded.graph, arg |-> loaded.graph]} :
    \E orig \in {NearestNode(cut.out, req.start)} :
    \E dest \in {NearestNode(cut.out, req.end)} :
    \E got \in {IF UseMshCache(req)
                THEN GetMshShortestPathTree(msh_spt_cache, cut.out, key)
                ELSE [tree |-> NoTree, cache |-> msh_spt_cache]} :
    \E walked \in {IF UseMshCache(req)
                   THEN ReconstructFromMshCache(got.tree.pred, orig, got.tree.msh_node)
                   ELSE Failure("unused")} :
    \E nx \in NxOutcomes(cut.out.edges, orig, dest) :
    \E resp \in RouteResponses(req, cut.out, orig) :
    \E o \in {RouteOutcome(req, cut.out, orig, dest, walked, got.tree.msh_node, resp, nx)} :
        /\ graphCache' = WithEntry(loaded.cache, key, cut.arg)
        /\ msh_spt_cache' = got.cache
        /\ recent' = Touch(recent, key)
        /\ last' = [handled |-> TRUE, req |-> req, key |-> key,
                    cached_before |-> CacheIndex(graphCache, key) # 0,
                    hit |-> loaded.hit, loaded |-> loaded.graph, G |-> cut.out,
                    orig |-> orig, dest |-> o.dest,
                    tree_lookup |-> UseMshCache(req),
                    tree_stored |-> got.cache # msh_spt_cache,
                    tree_err |-> walked.err,
                    label |-> o.label, via |-> o.via, out |-> o.out]
        /\ UNCHANGED <<world, pathVars, bridgeVars, otherVars>>

Edge(u, v, k, len) == [u |-> u, v |-> v, k |-> k, len |-> len]

\* Road networks: a diamond 1->{2,3}->4 with a longer parallel edge 1->2 and a
\* cross street 3->2; the same with node 3 a dead end; the same with no road
\* into node 4.
WorldFull ==
    {Edge(1, 2, 0, 1), Edge(1, 2, 1, 2), Edge(1, 3, 0, 1), Edge(2, 4, 0, 1),
     Edge(3, 4, 0, 1), Edge(3, 2, 0, 1)}

Worlds ==
    {WorldFull,
     WorldFull \ {Edge(3, 4, 0, 1), Edge(3, 2, 0, 1)},
     WorldFull \ {Edge(2, 4, 0, 1), Edge(3, 4, 0, 1)}}

StartPoints == {Point(389153, -770194), Point(389154, -770186)}

EndPoints == {Point(389184, -770196), Point(389176, -770207), Point(389176, -770216)}

\* blocked_edges lists of [lat, lng]: none, or a closure at node 2
BlockedLists == {<<>>, <<<<389170, -770207>>>>}

Requests ==
    [start : StartPoints, end : EndPoints, algorithm : {"dijkstra", "bmsssp"},
     blocked_edges : BlockedLists, include_exploration : BOOLEAN]

NoRequest ==
    [start |-> Point(0, 0), end |-> Point(0, 0), algorithm |-> "none",
     blocked_edges |-> <<>>, include_exploration |-> FALSE]

NoGraph == [nodes |-> {}, edges |-> {}]

NoLast ==
    [handled |-> FALSE, req |-> NoRequest, key |-> <<0, 0, 0, 0>>, cached_before |-> FALSE,
     hit |-> FALSE, loaded |-> NoGraph, G |-> NoGraph, orig |-> None, dest |-> None,
     tree_lookup |-> FALSE, tree_stored |-> FALSE, tree_err |-> "unused",
     label |-> "none", via |-> "none", out |-> Failure("none")]

Init ==
    /\ PathIdle
    /\ BridgeIdle
    /\ OtherIdle
    /\ world \in Worlds
    /\ graphCache = <<>>
    /\ msh_spt_cache = <<>>
    /\ recent = <<>>
    /\ last = NoLast
    /\ nkeys = 0
    /\ nhits = 0

Route(req) == HandleRequest(req) /\ UNCHANGED <<nkeys, nhits>>

Next == \E req \in Requests : Route(req)

Spec == Init /\ [][Next]_vars

(***************************************************************************)
(* SpecCache: requests to the hospital from ever more distant starts, each *)
(* start giving a corridor (BBoxKey) of its own, and a bounded number of   *)
(* requests that return to a corridor requested before.                    *)
(***************************************************************************)
MaxKeys == 18

MaxHits == 1

CacheRequest(i) ==
    [start |-> Point(389153 - 10 * i, -770194), end |-> Point(389184, -770196),
     algorithm |-> "dijkstra", blocked_edges |-> <<>>, include_exploration |-> FALSE]

CacheInit ==
    /\ PathIdle
    /\ BridgeIdle
    /\ OtherIdle
    /\ world = WorldFull
    /\ graphCache = <<>>
    /\ msh_spt_cache = <<>>
    /\ recent = <<>>
    /\ last = NoLast
    /\ nkeys = 0
    /\ nhits = 0

NewCorridor ==
    /\ nkeys < MaxKeys
    /\ HandleRequest(CacheRequest(nkeys))
    /\ nkeys' = nkeys + 1
    /\ UNCHANGED nhits

Revisit(i) ==
    /\ i < nkeys
    /\ nhits < MaxHits
    /\ HandleRequest(CacheRequest(i))
    /\ nhits' = nhits + 1
    /\ UNCHANGED nkeys

CacheNext == NewCorridor \/ \E i \in 0..(MaxKeys - 1) : Revisit(i)

SpecCache == CacheInit /\ [][CacheNext]_vars

(***************************************************************************)
(* Properties of the route handler, checked under Spec.                    *)
(***************************************************************************)
\* The graph the corridor of the last request gives once its closures are cut
FilteredGraph ==
    LET built == MapData(world, last.key)
    IN  [nodes |-> built.nodes,
         edges |-> built.edges
                   \ EdgesToRemove(built, BlockedTuples(last.req.blocked_edges), RADIUS_M)]

\* The answer is what a shortest-path search from the snapped start to the
\* snapped end gives on the graph the request worked on
SearchedOn(Gr) ==
    IF Reachable(Gr.edges, last.orig, last.dest)
    THEN last.out.err = "none" /\ last.out.path \in NxShortestPaths(Gr.edges, last.orig, last.dest)
    ELSE last.out.err # "none" /\ last.out.path = <<>>

\* C5: a request with a non-empty blocked_edges list neither reads nor
\* populates the tree cache, whatever trees are cached for its key, and its
\* answer is a shortest-path search on the filtered graph.
C5_BlockedBypassesTreeCache ==
    (last.handled /\ last.req.blocked_edges # <<>>) =>
        /\ ~last.tree_lookup
        /\ ~last.tree_stored
        /\ last.label # "msh_cache"
        /\ last.G = FilteredGraph
        /\ SearchedOn(FilteredGraph)

\* a closure request to the hospital on a key whose tree is cached, answered
\* with another path than the one the cached tree holds
C5_Witness ==
    /\ last.handled
    /\ last.req.blocked_edges # <<>>
    /\ last.req.algorithm = "dijkstra"
    /\ IsMshDestination(last.req.end)
    /\ last.key \in DOMAIN msh_spt_cache
    /\ last.out.err = "none"
    /\ LET t == msh_spt_cache[last.key]
       IN  /\ ReconstructFromMshCache(t.pred, last.orig, t.msh_node).err = "none"
           /\ ReconstructFromMshCache(t.pred, last.orig, t.msh_node).path # last.out.path

\* C6: whatever closure requests were handled, every graph the cache holds
\* has the node set and the edge set it was built with, and a request without
\* closures works on the whole graph of its key.
C6_CachedGraphIntact ==
    /\ \A i \in 1..Len(graphCache) :
          graphCache[i].graph = MapData(world, graphCache[i].key)
    /\ (last.handled /\ last.req.blocked_edges = <<>>) => last.G = MapData(world, last.key)

\* a closure request that got its graph from the cache and cut edges from it
C6_Witness ==
    /\ last.handled
    /\ last.req.blocked_edges # <<>>
    /\ last.hit
    /\ last.G.edges # last.loaded.edges
    /\ CacheIndex(graphCache, last.key) # 0

TreeErrors == {"NoPrecomputedPath", "CycleDetected"}

C8_OneCompleteGraphPerKey ==
    last.handled =>
        /\ last.loaded = MapData(world, last.key)
        /\ Cardinality({i \in 1..Len(graphCache) : graphCache[i].key = last.key}) = 1
        /\ last.cached_before => last.hit

\* a request served from the cache while another corridor is cached too
C8_Witness ==
    /\ last.handled
    /\ last.hit
    /\ Len(graphCache) >= 2

(***************************************************************************)
(* Properties of the two caches, checked under SpecCache.                  *)
(***************************************************************************)
CachedKeys == [i \in 1..Len(graphCache) |-> graphCache[i].key]

\* The n most recently requested corridors, least recently requested first
MostRecent(n) ==
    IF Len(recent) <= n THEN recent ELSE SubSeq(recent, Len(recent) - n + 1, Len(recent))

\* C9: the graph cache never holds more than 16 entries, and its keys are the
\* 16 most recently requested ones: each insertion into a full cache evicted
\* the least recently used key.
C9_GraphCacheLru ==
    /\ Len(graphCache) <= GraphCacheMaxsize
    /\ CachedKeys = MostRecent(GraphCacheMaxsize)

\* 17 corridors were requested, the first of them once more before the 17th:
\* the first is still cached and the second, not requested since, is gone
C9_Witness ==
    /\ nkeys > GraphCacheMaxsize
    /\ nhits >= 1
    /\ CacheIndex(graphCache, last.key) # 0
    /\ CacheIndex(graphCache, RoundBBox(BBoxForRoute(CacheRequest(0).start, CacheRequest(0).end))) # 0
    /\ CacheIndex(graphCache, RoundBBox(BBoxForRoute(CacheRequest(1).start, CacheRequest(1).end))) = 0

\* C10: the number of cached trees never exceeds the capacity ceiling (the
\* ceiling of the graph cache, whose keys the trees share).
C10_TreeCacheBounded == Cardinality(DOMAIN msh_spt_cache) <= GraphCacheMaxsize

(***************************************************************************)
(* SpecDijkstra: _dijkstra_with_exploration applied to one graph whose     *)
(* edge lengths may be zero and may differ by more than one, so that a     *)
(* tentative distance in the queue is improved before the node is popped.  *)
(***************************************************************************)
MaxWeight == 3

\* Every graph that gives each edge slot no edge or an edge of length 0..MaxWeight
WeightedGraphs ==
    {{[u |-> sl[1], v |-> sl[2], k |-> sl[3], len |-> f[sl]] :
          sl \in {x \in EdgeSlots : f[x] >= 0}} : f \in [EdgeSlots -> -1..MaxWeight]}

DijkstraInit ==
    /\ BridgeIdle
    /\ RouteIdle
    /\ OtherIdle
    /\ G \in WeightedGraphs
    /\ src \in Nodes
    /\ dst \in Nodes
    /\ nxTie = Failure("none")
    /\ res = NoResult

ApplyDijkstra == ApplyBuiltin(TRUE)

DijkstraNext == ApplyDijkstra

SpecDijkstra == DijkstraInit /\ [][DijkstraNext]_vars

\* C12: when the target is reachable, _dijkstra_with_exploration returns a
\* path from the source to the target along edges of the graph whose weight
\* (each hop the shortest of its parallel edges) is minimal among all paths.
C12_DijkstraOptimal ==
    (res.op = "builtin" /\ res.incl /\ Reachable(G, src, dst)) =>
        /\ res.out.err = "none"
        /\ IsPathIn(G, res.out.path, src, dst)
        /\ \A p \in SimplePaths(G, src, dst) :
              PathLength(G, res.out.path) <= PathLength(G, p)

\* the target was queued over a direct edge and reached more cheaply over
\* other nodes before it was popped
C12_Witness ==
    /\ res.op = "builtin"
    /\ res.incl
    /\ res.out.err = "none"
    /\ Len(res.out.path) >= 3
    /\ HasEdge(G, src, dst)
    /\ PathLength(G, res.out.path) < BestLength(G, src, dst)

\* C13: a built-in request returns the same node path with include_exploration
\* true as with include_exploration false.
C13_ExplorationNoEffect ==
    (res.op = "builtin" /\ res.out.err = "none") =>
        res.out.path = BuiltinEngine(G, src, dst, ~res.incl, nxTie).path

NoPathErrors == {"NoPathFound", "NetworkXNoPath"}

MaxRequests == 3

RequestIds == 1..MaxRequests

\* calculate_route with the built-in engine or with the worker, and an
\* unrelated request (geocode answered from _geocode_cache)
RequestKinds == {"route_dijkstra", "route_bmsssp", "geocode"}

\* graph loading, shortest-path computation, waiting on the worker's line
BlockingStages == {"load", "search", "wait"}

NewRequest == [kind |-> "none", pc |-> "new"]

LoopInit ==
    /\ PathIdle
    /\ BridgeIdle
    /\ RouteIdle
    /\ RunnerIdle
    /\ FilterIdle
    /\ CumIdle
    /\ SampleIdle
    /\ StepIdle
    /\ ExtraIdle
    /\ running = None
    /\ rq = [r \in RequestIds |-> NewRequest]

LoopFrame == UNCHANGED <<pathVars, bridgeVars, routeVars, runnerVars, filterVars, cumVars, sampleVars, stepVars, extraVars>>

\* a client sends the request: it waits in the server's socket
Arrive(r, kind) ==
    /\ rq[r].pc = "new"
    /\ rq' = [rq EXCEPT ![r] = [kind |-> kind, pc |-> "arrived"]]
    /\ UNCHANGED running
    /\ LoopFrame

\* the event-loop thread, executing no handler, starts the handler of r
Accept(r) ==
    /\ rq[r].pc = "arrived"
    /\ running = None
    /\ running' = r
    /\ rq' = [rq EXCEPT ![r].pc = IF rq[r].kind = "geocode" THEN "lookup" ELSE "load"]
    /\ LoopFrame

\* lines 1048-1051: G = _load_graph_cached(...), called on the thread of the handler
LoadStage(r) ==
    /\ running = r
    /\ rq[r].pc = "load"
    /\ rq' = [rq EXCEPT ![r].pc = "snap"]
    /\ UNCHANGED running
    /\ LoopFrame

\* lines 1053-1059: closures and snapping; then the engine of the request
SnapStage(r) ==
    /\ running = r
    /\ rq[r].pc = "snap"
    /\ rq' = [rq EXCEPT ![r].pc = IF rq[r].kind = "route_bmsssp" THEN "wait" ELSE "search"]
    /\ UNCHANGED running
    /\ LoopFrame

\* lines 1102-1108: the built-in search, called on the thread of the handler
SearchStage(r) ==
    /\ running = r
    /\ rq[r].pc = "search"
    /\ rq' = [rq EXCEPT ![r].pc = "respond"]
    /\ UNCHANGED running
    /\ LoopFrame

\* line 1098: _bmsssp_path, whose runner.call joins the reader thread for up to
\* timeout_s on the thread of the handler
WaitStage(r) ==
    /\ running = r
    /\ rq[r].pc = "wait"
    /\ rq' = [rq EXCEPT ![r].pc = "respond"]
    /\ UNCHANGED running
    /\ LoopFrame

\* the handler returns (calculate_route line 1148, geocode line 907): the
\* event-loop thread is free again
Respond(r) ==
    /\ running = r
    /\ rq[r].pc \in {"respond", "lookup"}
    /\ rq' = [rq EXCEPT ![r].pc = "done"]
    /\ running' = None
    /\ LoopFrame

LoopNext ==
    \/ \E r \in RequestIds : \E kind \in RequestKinds : Arrive(r, kind)
    \/ \E r \in RequestIds : Accept(r)
    \/ \E r \in RequestIds : LoadStage(r)
    \/ \E r \in RequestIds : SnapStage(r)
    \/ \E r \in RequestIds : SearchStage(r)
    \/ \E r \in RequestIds : WaitStage(r)
    \/ \E r \in RequestIds : Respond(r)

SpecLoop == LoopInit /\ [][LoopNext]_vars

\* C11: while a route request is loading a graph, searching or waiting on the
\* worker, another request that has arrived can be accepted: the blocking step
\* does not occupy the thread that starts handlers.
C11_BlockingOffLoop ==
    \A a \in RequestIds : \A b \in RequestIds :
        (a # b /\ rq[a].pc \in BlockingStages /\ rq[b].pc = "arrived") => ENABLED Accept(b)

(***************************************************************************)
(* SpecRunner: threads calling _bmsssp_path: each gets the persistent      *)
(* worker from _get_bmsssp_runner (which spawns it on first use), calls    *)
(* it or runs the one-shot worker, and falls back to the library search    *)
(* on any exception.  The line exchange of a call is SpecBridge's subject; *)
(* here a call to a live worker succeeds or raises.                        *)
(***************************************************************************)
Threads == 1..MaxCallers

NewThread ==
    [pc |-> "idle", got |-> None, sawNone |-> FALSE, unavailable |-> FALSE,
     oneShot |-> FALSE, via |-> "none"]

RunnerInit ==
    /\ PathIdle
    /\ BridgeIdle
    /\ RouteIdle
    /\ LoopIdle
    /\ FilterIdle
    /\ CumIdle
    /\ SampleIdle
    /\ StepIdle
    /\ ExtraIdle
    /\ useServer \in BOOLEAN
    /\ serverExists \in BOOLEAN
    /\ BMSSSP_RUNNER = None
    /\ initLock = None
    /\ spawned = 0
    /\ exited = {}
    /\ thr = [t \in Threads |-> NewThread]

RunnerFrame == UNCHANGED <<pathVars, bridgeVars, routeVars, loopVars, filterVars, cumVars, sampleVars, stepVars, extraVars>>

\* _get_bmsssp_runner returned None: _bmsssp_path goes to the one-shot worker
ReturnsNone(t) == [thr[t] EXCEPT !.pc = "oneshot", !.got = None, !.unavailable = TRUE]

\* _get_bmsssp_runner returned the runner: _bmsssp_path goes to runner.call
ReturnsRunner(t, h) == [thr[t] EXCEPT !.pc = "call", !.got = h]

\* lines 558-559: BMSSSP_USE_SERVER switched off
CheckEnv(t) ==
    /\ thr[t].pc = "idle"
    /\ thr' = [thr EXCEPT ![t] = IF useServer THEN [thr[t] EXCEPT !.pc = "check1"]
                                 ELSE ReturnsNone(t)]
    /\ UNCHANGED <<useServer, serverExists, BMSSSP_RUNNER, initLock, spawned, exited>>
    /\ RunnerFrame

\* lines 561-562: the check outside the lock
FirstCheck(t) ==
    /\ thr[t].pc = "check1"
    /\ thr' = [thr EXCEPT ![t] = IF BMSSSP_RUNNER # None THEN ReturnsRunner(t, BMSSSP_RUNNER)
                                 ELSE [thr[t] EXCEPT !.pc = "lock", !.sawNone = TRUE]]
    /\ UNCHANGED <<useServer, serverExists, BMSSSP_RUNNER, initLock, spawned, exited>>
    /\ RunnerFrame

\* line 564: with _BMSSSP_RUNNER_INIT_LOCK
LockInit(t) ==
    /\ thr[t].pc = "lock"
    /\ initLock = None
    /\ initLock' = t
    /\ thr' = [thr EXCEPT ![t].pc = "check2"]
    /\ UNCHANGED <<useServer, serverExists, BMSSSP_RUNNER, spawned, exited>>
    /\ RunnerFrame

SecondCheckSkipped(t) ==
    /\ thr[t].pc = "check2"
    /\ initLock = t
    /\ thr' = [thr EXCEPT ![t].pc = "exists"]
    /\ UNCHANGED <<useServer, serverExists, BMSSSP_RUNNER, initLock, spawned, exited>>
    /\ RunnerFrame

\* lines 565-566: the check under the lock
SecondCheck(t) ==
    /\ thr[t].pc = "check2"
    /\ initLock = t
    /\ IF BMSSSP_RUNNER # None
       THEN /\ thr' = [thr EXCEPT ![t] = ReturnsRunner(t, BMSSSP_RUNNER)]
            /\ initLock' = None
       ELSE /\ thr' = [thr EXCEPT ![t].pc = "exists"]
            /\ UNCHANGED initLock
    /\ UNCHANGED <<useServer, serverExists, BMSSSP_RUNNER, spawned, exited>>
    /\ RunnerFrame

\* lines 568-574: the server script is missing
ExistsCheck(t) ==
    /\ thr[t].pc = "exists"
    /\ initLock = t
    /\ IF serverExists
       THEN /\ thr' = [thr EXCEPT ![t].pc = "spawn"]
            /\ UNCHANGED initLock
       ELSE /\ thr' = [thr EXCEPT ![t] = ReturnsNone(t)]
            /\ initLock' = None
    /\ UNCHANGED <<useServer, serverExists, BMSSSP_RUNNER, spawned, exited>>
    /\ RunnerFrame

\* lines 576-581: _BmSsspServerRunner(server_path) spawns the worker, or
\* subprocess.Popen raises and _BMSSSP_RUNNER is set to None
Spawn(t, ok) ==
    /\ thr[t].pc = "spawn"
    /\ initLock = t
    /\ IF ok
       THEN /\ spawned' = spawned + 1
            /\ BMSSSP_RUNNER' = spawned + 1
            /\ thr' = [thr EXCEPT ![t] = ReturnsRunner(t, spawned + 1)]
       ELSE /\ BMSSSP_RUNNER' = None
            /\ thr' = [thr EXCEPT ![t] = ReturnsNone(t)]
            /\ UNCHANGED spawned
    /\ initLock' = None
    /\ UNCHANGED <<useServer, serverExists, exited>>
    /\ RunnerFrame

\* _bmsssp_path lines 601-603 with call() lines 537-538: a runner whose process
\* has exited raises RuntimeError("bmsssp runner not running"); a live worker
\* answers with a usable line or the call raises
RunnerCall(t, ok) ==
    /\ thr[t].pc = "call"
    /\ thr' = [thr EXCEPT ![t] =
          IF thr[t].got \in exited
          THEN [thr[t] EXCEPT !.pc = "fallback", !.unavailable = TRUE]
          ELSE IF ok THEN [thr[t] EXCEPT !.pc = "done", !.via = "worker"]
               ELSE [thr[t] EXCEPT !.pc = "fallback"]]
    /\ UNCHANGED <<useServer, serverExists, BMSSSP_RUNNER, initLock, spawned, exited>>
    /\ RunnerFrame

\* _bmsssp_path lines 604-619: subprocess.run of the one-shot script
OneShot(t, ok) ==
    /\ thr[t].pc = "oneshot"
    /\ thr' = [thr EXCEPT ![t] =
          IF ok THEN [thr[t] EXCEPT !.pc = "done", !.oneShot = TRUE, !.via = "oneshot"]
          ELSE [thr[t] EXCEPT !.pc = "fallback", !.oneShot = TRUE]]
    /\ UNCHANGED <<useServer, serverExists, BMSSSP_RUNNER, initLock, spawned, exited>>
    /\ RunnerFrame

\* _bmsssp_path lines 658-661: except Exception -> nx.shortest_path
NxFallback(t) ==
    /\ thr[t].pc = "fallback"
    /\ thr' = [thr EXCEPT ![t].pc = "done", ![t].via = "fallback"]
    /\ UNCHANGED <<useServer, serverExists, BMSSSP_RUNNER, initLock, spawned, exited>>
    /\ RunnerFrame

\* a spawned worker process exits
WorkerDies(h) ==
    /\ h \in 1..spawned
    /\ h \notin exited
    /\ exited' = exited \cup {h}
    /\ UNCHANGED <<useServer, serverExists, BMSSSP_RUNNER, initLock, spawned, thr>>
    /\ RunnerFrame

RunnerNext ==
    \/ \E t \in Threads : CheckEnv(t)
    \/ \E t \in Threads : FirstCheck(t)
    \/ \E t \in Threads : LockInit(t)
    \/ \E t \in Threads : SecondCheck(t)
    \/ \E t \in Threads : ExistsCheck(t)
    \/ \E t \in Threads : \E ok \in BOOLEAN : Spawn(t, ok)
    \/ \E t \in Threads : \E ok \in BOOLEAN : RunnerCall(t, ok)
    \/ \E t \in Threads : \E ok \in BOOLEAN : OneShot(t, ok)
    \/ \E t \in Threads : NxFallback(t)
    \/ \E h \in 1..MaxCallers : WorkerDies(h)

SpecRunner == RunnerInit /\ [][RunnerNext]_vars

\* C15: a call that found no persistent worker available (server mode off,
\* script missing, spawn failed, worker exited) runs the one-shot worker
\* before it uses the built-in fallback.
C15_OneShotBeforeFallback ==
    \A t \in Threads :
        (thr[t].unavailable /\ thr[t].pc \in {"fallback", "done"}) => thr[t].oneShot

\* C16: at most one persistent worker is ever spawned, and every call that got
\* a runner got the one _BMSSSP_RUNNER holds.
C16_SingleRunner ==
    /\ spawned <= 1
    /\ \A t \in Threads : thr[t].got # None => thr[t].got = BMSSSP_RUNNER

\* two calls both found _BMSSSP_RUNNER unset outside the lock, one spawned the
\* worker, and both got that worker
C16_Witness ==
    /\ spawned = 1
    /\ \E t \in Threads : \E u \in Threads :
          /\ t # u
          /\ thr[t].sawNone /\ thr[u].sawNone
          /\ thr[t].got = 1 /\ thr[u].got = 1

(***************************************************************************)
(* SpecFilter: _remove_blocked_edges applied to one graph and one list of  *)
(* blocked points.                                                         *)
(***************************************************************************)
\* The four nodes with any part of the road network between them
FilterGraphs == {[nodes |-> Nodes, edges |-> es] : es \in SUBSET WorldFull}

\* No point; a point at node 2; a point far from every node; points at nodes
\* 2 and 3; a point at node 4; a point 5 m from the middle of the 295 m edge
\* 3 -> 4 and more than 140 m from every node; that point and one at node 2
FilterBlockedLists ==
    {<<>>,
     <<<<389170, -770207>>>>,
     <<<<389300, -770300>>>>,
     <<<<389170, -770207>>, <<389158, -770183>>>>,
     <<<<389185, -770195>>>>,
     <<<<389171, -770189>>>>,
     <<<<389171, -770189>>, <<389170, -770207>>>>}

NotFiltered == [applied |-> FALSE, ret |-> [out |-> NoGraph, arg |-> NoGraph, copy |-> FALSE]]

FilterInit ==
    /\ PathIdle
    /\ BridgeIdle
    /\ RouteIdle
    /\ LoopIdle
    /\ RunnerIdle
    /\ CumIdle
    /\ SampleIdle
    /\ StepIdle
    /\ ExtraIdle
    /\ fin \in [graph : FilterGraphs, blocked : FilterBlockedLists]
    /\ fout = NotFiltered

ApplyFilter ==
    /\ ~fout.applied
    /\ fout' = [applied |-> TRUE, ret |-> RemoveBlockedEdges(fin.graph, fin.blocked, RADIUS_M)]
    /\ UNCHANGED <<fin, pathVars, bridgeVars, routeVars, loopVars, runnerVars, cumVars, sampleVars, stepVars, extraVars>>

FilterNext == ApplyFilter

SpecFilter == FilterInit /\ [][FilterNext]_vars

IncidentEdges(Gr, n) == {e \in Gr.edges : e.u = n \/ e.v = n}

\* C17: with a non-empty list of blocked points the graph returned has the
\* node set of the input, and each of its edges is an edge of the input
\* (same endpoints, key and attributes).
C17_FilterKeepsNodesCutsEdges ==
    (fout.applied /\ fin.blocked # <<>>) =>
        /\ fout.ret.out.nodes = fin.graph.nodes
        /\ fout.ret.out.edges \subseteq fin.graph.edges

\* edges were cut and a node that had edges is left without any, and is kept
C17_Witness ==
    /\ fout.applied
    /\ fin.blocked # <<>>
    /\ fout.ret.out.edges # fin.graph.edges
    /\ \E n \in fout.ret.out.nodes :
          IncidentEdges(fin.graph, n) # {} /\ IncidentEdges(fout.ret.out, n) = {}

MaxSegs == 7

RECURSIVE SampleLoop(_, _, _, _)
\* lines 178-183: the k-th pass of the while loop
SampleLoop(sg, cap, k, out) ==
    IF Len(out) >= cap THEN out
    ELSE LET idx == (k * Len(sg)) \div cap
         IN  IF idx >= Len(sg) THEN out
             ELSE SampleLoop(sg, cap, k + 1, Append(out, sg[idx + 1]))

\* a _downsample_segments that returns the list whole whatever the cap
DownsampleReturningAll(sg, cap) == [err |-> "none", out |-> sg]

\* _downsample_segments; n / float(max_n) raises ZeroDivisionError for max_n = 0
DownsampleSegments(sg, cap) ==
    IF Len(sg) <= cap THEN [err |-> "none", out |-> sg]
    ELSE IF cap = 0 THEN [err |-> "ZeroDivisionError", out |-> <<>>]
    ELSE [err |-> "none", out |-> SampleLoop(sg, cap, 0, <<>>)]

NotSampled == [applied |-> FALSE, err |-> "none", out |-> <<>>]

SampleInit ==
    /\ PathIdle
    /\ BridgeIdle
    /\ RouteIdle
    /\ LoopIdle
    /\ RunnerIdle
    /\ FilterIdle
    /\ CumIdle
    /\ StepIdle
    /\ ExtraIdle
    /\ segs \in {[i \in 1..n |-> i] : n \in 0..MaxSegs}
    /\ max_n \in 0..MaxSegs
    /\ sampled = NotSampled

ApplyDownsample ==
    /\ ~sampled.applied
    /\ LET r == DownsampleSegments(segs, max_n)
       IN  sampled' = [applied |-> TRUE, err |-> r.err, out |-> r.out]
    /\ UNCHANGED <<segs, max_n, pathVars, bridgeVars, routeVars, loopVars, runnerVars,
                   filterVars, cumVars, stepVars, extraVars>>

SampleNext == ApplyDownsample

SpecSample == SampleInit /\ [][SampleNext]_vars

\* C20: for a list of n >= max_n segments (n >= 1) the list returned starts
\* with the first segment of the input and ends with its last segment.
C20_FirstAndLastKept ==
    (sampled.applied /\ sampled.err = "none" /\ Len(segs) >= max_n /\ Len(segs) >= 1) =>
        /\ Len(sampled.out) >= 1
        /\ sampled.out[1] = segs[1]
        /\ sampled.out[Len(sampled.out)] = segs[Len(segs)]

(***************************************************************************)
(* SpecCum: steps 4 and 5 of calculate_route for one path:                 *)
(* _route_polyline_and_edges, then _build_cum_distance and                 *)
(* _build_cum_time.  Points lie on one meridian and are given by their     *)
(* position in metres, so that _haversine_m is the absolute difference.    *)
(* Distances are whole metres, speeds decimetres per second, times         *)
(* milliseconds; a float operation becomes the exact one rounded down,     *)
(* which is monotone in each operand as float rounding is.  List indices   *)
(* are those of the code (from 0); element i of a list is seq[i + 1].      *)
(***************************************************************************)
MaxHops == 3

\* G.nodes[n]["x"], ["y"] of the k-th node of the path (k from 0)
NodeX(k) == 3 * (k % 2)

\* edge_data["geometry"].xy of an edge that has a geometry
Geometries == {<<>>, <<0>>, <<0, 3>>, <<3, 0>>, <<0, 0>>, <<0, 3, 0>>}

\* speed_kph after the scenario multiplier: a maxspeed of 0 and 36 km/h
SpeedsKph == {0, 36}

\* one (u, v) of the path: no edge data, an edge without geometry, an edge with one
HopKinds ==
    {[kind |-> k, pts |-> <<>>] : k \in {"noedge", "nogeom"}}
        \cup {[kind |-> "geom", pts |-> g] : g \in Geometries}

\* the edges here carry no name and no ref: their name is "Unnamed Road" (line 681)
Hops ==
    {[kind |-> h.kind, pts |-> h.pts, speed_kph |-> s, name |-> "Unnamed Road"] :
        h \in HopKinds, s \in SpeedsKph}

\* _haversine_m on the meridian
HaversineM(a, b) == Abs(a - b)

\* _bearing_deg on the meridian: atan2(0, d_lat) is 0 for d_lat >= 0 and 180 below
BearingDeg(a, b) == IF b < a THEN 180 ELSE 0

RECURSIVE PolylineLoop(_, _, _, _)
\* lines 673-724: the i-th pass of the loop over zip(path_nodes[:-1], path_nodes[1:])
PolylineLoop(hs, i, route_coords, edges_meta) ==
    IF i > Len(hs) THEN [route_coords |-> route_coords, edges_meta |-> edges_meta]
    ELSE IF hs[i].kind = "noedge" THEN PolylineLoop(hs, i + 1, route_coords, edges_meta)
    ELSE LET span_start == IF route_coords # <<>> THEN Len(route_coords) - 1 ELSE 0
             pts == IF hs[i].kind = "geom"
                    THEN IF route_coords # <<>> /\ hs[i].pts # <<>>
                         THEN Tail(hs[i].pts)
                         ELSE hs[i].pts
                    ELSE IF route_coords = <<>>
                         THEN <<NodeX(i - 1), NodeX(i)>>
                         ELSE <<NodeX(i)>>
             coords == route_coords \o pts
             span_end == Len(coords) - 1
         IN  PolylineLoop(hs, i + 1, coords,
                 Append(edges_meta,
                     [name |-> hs[i].name, speed_kph |-> hs[i].speed_kph,
                      span_start |-> span_start, span_end |-> span_end,
                      bearing |-> IF span_end > span_start
                                  THEN BearingDeg(coords[span_start + 1], coords[span_start + 2])
                                  ELSE 0]))

\* _route_polyline_and_edges
RoutePolylineAndEdges(hs) == PolylineLoop(hs, 1, <<>>, <<>>)

RECURSIVE CumDistanceLoop(_, _, _)
\* lines 733-734: cum[i] = cum[i - 1] + _haversine_m(coords[i - 1], coords[i])
CumDistanceLoop(coords, i, acc) ==
    IF i > Len(coords) - 1 THEN acc
    ELSE CumDistanceLoop(coords, i + 1,
             [acc EXCEPT ![i + 1] = acc[i] + HaversineM(coords[i], coords[i + 1])])

\* _build_cum_distance
BuildCumDistance(coords) ==
    IF coords = <<>> THEN <<>>
    ELSE CumDistanceLoop(coords, 1, [i \in 1..Len(coords) |-> 0])

\* a speed conversion that takes the km/h figure for metres per second
SpeedDmpsUnconverted(speed_kph) == IF speed_kph < 1 THEN 1 ELSE 10 * speed_kph

\* max(0.1, float(em["speed_kph"]) / 3.6), in decimetres per second
SpeedDmps(speed_kph) ==
    LET v == (speed_kph * 100) \div 36 IN IF v < 1 THEN 1 ELSE v

RECURSIVE SpanLoop(_, _, _, _)
\* lines 744-758: the k-th pass of the loop over edges_meta
SpanLoop(edges_meta, k, cum_dist, cum_time) ==
    IF k > Len(edges_meta) THEN cum_time
    ELSE LET s == edges_meta[k].span_start
             e == edges_meta[k].span_end
         IN  IF e <= s THEN SpanLoop(edges_meta, k + 1, cum_dist, cum_time)
             ELSE LET d == cum_dist[e + 1] - cum_dist[s + 1]
                      seg_dist == IF d < 0 THEN 0 ELSE d
                      seg_time == (10000 * seg_dist) \div SpeedDmps(edges_meta[k].speed_kph)
                      t0 == cum_time[s + 1]
                      fill(i) == IF seg_dist <= 0 THEN t0
                                 ELSE t0 + (seg_time * (cum_dist[i + 1] - cum_dist[s + 1]))
                                              \div seg_dist
                  IN  SpanLoop(edges_meta, k + 1, cum_dist,
                          [j \in 1..Len(cum_time) |->
                              IF s + 1 <= j - 1 /\ j - 1 <= e THEN fill(j - 1)
                              ELSE cum_time[j]])

\* an ensure-monotonicity pass that leaves the list as it is
EnsureMonotoneSkipped(cum_time, i) == cum_time

RECURSIVE EnsureMonotone(_, _)
\* lines 761-763: if cum_time[i] < cum_time[i - 1]: cum_time[i] = cum_time[i - 1]
EnsureMonotone(cum_time, i) ==
    IF i > Len(cum_time) - 1 THEN cum_time
    ELSE EnsureMonotone(IF cum_time[i + 1] < cum_time[i]
                        THEN [cum_time EXCEPT ![i + 1] = cum_time[i]]
                        ELSE cum_time, i + 1)

\* _build_cum_time
BuildCumTime(coords, cum_dist, edges_meta) ==
    IF coords = <<>> THEN <<>>
    ELSE EnsureMonotone(
             SpanLoop(edges_meta, 1, cum_dist, [i \in 1..Len(coords) |-> 0]), 1)

\* edges_meta as _build_cum_time receives it: whole (k = 0), or without its k-th span
WithoutSpan(edges_meta, k) ==
    IF k = 0 \/ k > Len(edges_meta) THEN edges_meta
    ELSE SubSeq(edges_meta, 1, k - 1) \o SubSeq(edges_meta, k + 1, Len(edges_meta))

NoTimeline ==
    [stage |-> "path", route_coords |-> <<>>, edges_meta |-> <<>>,
     cum_dist |-> <<>>, cum_time |-> <<>>]

CumInit ==
    /\ PathIdle
    /\ BridgeIdle
    /\ RouteIdle
    /\ LoopIdle
    /\ RunnerIdle
    /\ FilterIdle
    /\ SampleIdle
    /\ StepIdle
    /\ ExtraIdle
    /\ hops \in UNION {[1..n -> Hops] : n \in 0..MaxHops}
    /\ dropped \in 0..Len(hops)
    /\ cum = NoTimeline

CumFrame ==
    UNCHANGED <<hops, dropped, pathVars, bridgeVars, routeVars, loopVars, runnerVars,
                filterVars, sampleVars, stepVars, extraVars>>

\* line 1122
Polyline ==
    /\ cum.stage = "path"
    /\ \E r \in {RoutePolylineAndEdges(hops)} :
           cum' = [cum EXCEPT !.stage = "polyline", !.route_coords = r.route_coords,
                              !.edges_meta = WithoutSpan(r.edges_meta, dropped)]
    /\ CumFrame

\* lines 1123-1124: raise RuntimeError("No route points produced.")
NoRoutePoints ==
    /\ cum.stage = "polyline"
    /\ cum.route_coords = <<>>
    /\ cum' = [cum EXCEPT !.stage = "error"]
    /\ CumFrame

\* line 1127
CumDistance ==
    /\ cum.stage = "polyline"
    /\ cum.route_coords # <<>>
    /\ cum' = [cum EXCEPT !.stage = "distance", !.cum_dist = BuildCumDistance(cum.route_coords)]
    /\ CumFrame

\* line 1128
CumTime ==
    /\ cum.stage = "distance"
    /\ cum' = [cum EXCEPT !.stage = "done",
                          !.cum_time = BuildCumTime(cum.route_coords, cum.cum_dist, cum.edges_meta)]
    /\ CumFrame

CumNext ==
    \/ Polyline
    \/ NoRoutePoints
    \/ CumDistance
    \/ CumTime

SpecCum == CumInit /\ [][CumNext]_vars

NonDecreasing(s) == \A i \in 2..Len(s) : s[i] >= s[i - 1]

\* C19: once both cumulative sequences are built, each has one element per
\* point of the polyline, starts at 0 and never decreases from one element to
\* the next, whatever the spans (empty ones and missing ones included).
C19_CumulativeSequences ==
    cum.stage = "done" =>
        /\ Len(cum.cum_dist) = Len(cum.route_coords)
        /\ Len(cum.cum_time) = Len(cum.route_coords)
        /\ cum.cum_dist[1] = 0
        /\ cum.cum_time[1] = 0
        /\ NonDecreasing(cum.cum_dist)
        /\ NonDecreasing(cum.cum_time)

\* a finished timeline with an empty span, a point that no span covers, a
\* positive time, and a time that the last pass had to raise
C19_Witness ==
    /\ cum.stage = "done"
    /\ \E k \in 1..Len(cum.edges_meta) :
           cum.edges_meta[k].span_end <= cum.edges_meta[k].span_start
    /\ \E i \in 1..(Len(cum.route_coords) - 1) :
           \A k \in 1..Len(cum.edges_meta) :
               ~(cum.edges_meta[k].span_start < i /\ i <= cum.edges_meta[k].span_end)
    /\ cum.cum_time[Len(cum.cum_time)] > 0
    /\ cum.cum_time #
           SpanLoop(cum.edges_meta, 1, cum.cum_dist, [i \in 1..Len(cum.route_coords) |-> 0])

\* C21: for a cap max_n >= 1 the call returns a list (no error) of at most
\* max_n segments, taken from the input at strictly increasing positions, and
\* the input itself when it has no more than max_n segments.
C21_AtMostCapInOrder ==
    (sampled.applied /\ max_n >= 1) =>
        /\ sampled.err = "none"
        /\ Len(sampled.out) <= max_n
        /\ \A i \in 1..Len(sampled.out) : sampled.out[i] \in 1..Len(segs)
        /\ \A i \in 2..Len(sampled.out) : sampled.out[i] > sampled.out[i - 1]
        /\ (Len(segs) <= max_n => sampled.out = segs)

\* a list longer than a cap of two or more, cut down to exactly the cap
C21_Witness ==
    /\ sampled.applied
    /\ max_n >= 2
    /\ Len(segs) > max_n + 1
    /\ Len(sampled.out) = max_n

(***************************************************************************)
(* SpecManeuver: the turn between two edges of bearings a1 and a2 (whole   *)
(* degrees): _angle_diff_deg, then _classify_maneuver.                     *)
(***************************************************************************)
Bearings == 0..359

PrevBearings == {0, 200}

\* _angle_diff_deg(a2, a1)
AngleDiffDeg(a2, a1) == ((a2 - a1 + 540) % 360) - 180

\* a _classify_maneuver that takes every turn for a turn to the right
ClassifyManeuverUnsigned(delta) ==
    IF Abs(delta) < 20 THEN "continue"
    ELSE IF Abs(delta) < 60 THEN "slight_right"
    ELSE IF Abs(delta) < 135 THEN "right"
    ELSE "uturn"

\* _classify_maneuver
ClassifyManeuver(delta) ==
    IF Abs(delta) < 20 THEN "continue"
    ELSE IF Abs(delta) < 60 THEN (IF delta > 0 THEN "slight_right" ELSE "slight_left")
    ELSE IF Abs(delta) < 135 THEN (IF delta > 0 THEN "right" ELSE "left")
    ELSE "uturn"

ManeuverInit ==
    /\ PathIdle
    /\ BridgeIdle
    /\ RouteIdle
    /\ LoopIdle
    /\ RunnerIdle
    /\ FilterIdle
    /\ CumIdle
    /\ SampleIdle
    /\ ExtraIdle
    /\ turn \in [a2 : Bearings, a1 : PrevBearings]
    /\ man = <<>>
    /\ emeta = <<>>
    /\ nav = <<>>
    /\ trip = <<>>
    /\ itin = <<>>

\* _build_steps lines 833 and 843
Classify ==
    /\ man = <<>>
    /\ \E d \in {AngleDiffDeg(turn.a2, turn.a1)} :
           man' = [delta |-> d, maneuver |-> ClassifyManeuver(d)]
    /\ UNCHANGED <<turn, emeta, nav, trip, itin, pathVars, bridgeVars, routeVars, loopVars,
                   runnerVars, filterVars, cumVars, sampleVars, extraVars>>

ManeuverNext == Classify

SpecManeuver == ManeuverInit /\ [][ManeuverNext]_vars

\* C22: the maneuver depends on the bearing delta d alone, d lies in
\* [-180, 180], and it is continue for |d| < 20, slight_right / slight_left by
\* the sign of d for 20 <= |d| < 60, right / left for 60 <= |d| < 135, uturn
\* for |d| >= 135; 10, 45, 90, -90 and 170 give continue, slight_right, right,
\* left and uturn.
C22_ManeuverTable ==
    man # <<>> =>
        /\ man.delta \in -180..180
        /\ Abs(man.delta) < 20 => man.maneuver = "continue"
        /\ (20 <= Abs(man.delta) /\ Abs(man.delta) < 60) =>
               man.maneuver = (IF man.delta > 0 THEN "slight_right" ELSE "slight_left")
        /\ (60 <= Abs(man.delta) /\ Abs(man.delta) < 135) =>
               man.maneuver = (IF man.delta > 0 THEN "right" ELSE "left")
        /\ Abs(man.delta) >= 135 => man.maneuver = "uturn"
        /\ man.delta = 10 => man.maneuver = "continue"
        /\ man.delta = 45 => man.maneuver = "slight_right"
        /\ man.delta = 90 => man.maneuver = "right"
        /\ man.delta = -90 => man.maneuver = "left"
        /\ man.delta = 170 => man.maneuver = "uturn"

\* a turn of -90 degrees across north (from bearing 0 to bearing 270), classified
C22_Witness ==
    /\ man # <<>>
    /\ turn.a1 = 0
    /\ turn.a2 = 270
    /\ man.delta = -90
    /\ man.maneuver = "left"

(***************************************************************************)
(* SpecSteps: _build_steps applied to one edges_meta list and its cum_dist.*)
(* The input is described edge by edge: its name, its bearing and what its *)
(* geometry added to the polyline ("void": an empty geometry before any    *)
(* point exists, span 0..-1; "point": no new point, span_end = span_start; *)
(* "seg": one new point len metres further on).  Distances are whole       *)
(* metres, so round(x, 2) leaves them as they are.  A step is the NavStep  *)
(* without its instruction, which _instruction_for derives from maneuver   *)
(* and street.                                                             *)
(***************************************************************************)
MaxEdges == 3

StreetNames == {"King St", "Queen St"}

StepBearings == {0, 34, 35, 180}

EdgeLengths == {10, 30}

\* what one edge of the path contributes; the bearing of an edge whose span is
\* empty is 0.0 (_route_polyline_and_edges lines 705-711)
EdgeShapes ==
    {[name |-> n, bearing |-> 0, span |-> s, len |-> 0] :
        n \in StreetNames, s \in {"void", "point"}}
    \cup {[name |-> n, bearing |-> b, span |-> "seg", len |-> l] :
        n \in StreetNames, b \in StepBearings, l \in EdgeLengths}

RECURSIVE SpansLoop(_, _, _, _)
\* span_start, span_end and cum_dist as lines 689-703 and 729-735 produce them
SpansLoop(es, i, edges_meta, cum_dist) ==
    IF i > Len(es) THEN [edges_meta |-> edges_meta, cum_dist |-> cum_dist]
    ELSE LET e == es[i]
             span_start == IF cum_dist # <<>> THEN Len(cum_dist) - 1 ELSE 0
             cd == IF e.span = "void" THEN cum_dist
                   ELSE IF e.span = "point"
                        THEN (IF cum_dist = <<>> THEN <<0>> ELSE cum_dist)
                        ELSE IF cum_dist = <<>> THEN <<0, e.len>>
                        ELSE Append(cum_dist, cum_dist[Len(cum_dist)] + e.len)
         IN  SpansLoop(es, i + 1,
                 Append(edges_meta, [name |-> e.name, bearing |-> e.bearing,
                                     span_start |-> span_start, span_end |-> Len(cd) - 1]),
                 cd)

\* an empty geometry leaves no point only while the polyline is still empty
WellShaped(es) ==
    /\ \A i \in 2..Len(es) : es[i].span = "void" => es[i - 1].span = "void"
    /\ es[Len(es)].span # "void"

\* cum_dist[idx] as Python reads it: a negative index counts from the end
ListAt(list, idx) == IF idx < 0 THEN list[Len(list) + idx + 1] ELSE list[idx + 1]

\* finalize_step(end_edge_idx, maneuver), lines 809-828
FinalizeStep(edges_meta, cum_dist, step_start_edge, end_edge_idx, maneuver, id) ==
    LET s_idx == edges_meta[step_start_edge + 1].span_start
        e_idx == edges_meta[end_edge_idx + 1].span_end
        start_m == IF s_idx < Len(cum_dist) THEN ListAt(cum_dist, s_idx) ELSE 0
        end_m == IF e_idx < Len(cum_dist) THEN ListAt(cum_dist, e_idx) ELSE start_m
    IN  [id |-> id, street |-> edges_meta[step_start_edge + 1].name,
         start_distance_m |-> start_m, end_distance_m |-> end_m, maneuver |-> maneuver]

RECURSIVE SegmentLoop(_, _, _, _, _, _, _)
\* lines 831-847: the loop over range(1, len(edges_meta)) and the last finalize_step;
\* starts collects the values step_start_edge takes
SegmentLoop(edges_meta, cum_dist, i, step_start_edge, step_maneuver, steps, starts) ==
    IF i > Len(edges_meta) - 1
    THEN [steps |-> Append(steps, FinalizeStep(edges_meta, cum_dist, step_start_edge,
                                               Len(edges_meta) - 1, step_maneuver, Len(steps))),
          starts |-> starts]
    ELSE LET prev == edges_meta[i]
             cur == edges_meta[i + 1]
             delta == AngleDiffDeg(cur.bearing, prev.bearing)
             name_change == cur.name # prev.name
             big_turn == Abs(delta) >= 35
         IN  IF name_change \/ big_turn
             THEN SegmentLoop(edges_meta, cum_dist, i + 1, i, ClassifyManeuver(delta),
                      Append(steps, FinalizeStep(edges_meta, cum_dist, step_start_edge,
                                                 i - 1, step_maneuver, Len(steps))),
                      starts \cup {i})
             ELSE SegmentLoop(edges_meta, cum_dist, i + 1, step_start_edge, step_maneuver,
                      steps, starts)

\* a merge pass that keeps every step
MergeLoopKeepingAll(steps, j, merged) == steps

RECURSIVE MergeLoop(_, _, _)
\* lines 851-860: merge a short step on the same street into the step before it
MergeLoop(steps, j, merged) ==
    IF j > Len(steps) THEN merged
    ELSE IF merged = <<>> THEN MergeLoop(steps, j + 1, <<steps[j]>>)
    ELSE LET st == steps[j]
             prev == merged[Len(merged)]
         IN  IF st.street = prev.street /\ (st.end_distance_m - st.start_distance_m) < 30
             THEN MergeLoop(steps, j + 1,
                      [merged EXCEPT ![Len(merged)].end_distance_m = st.end_distance_m])
             ELSE MergeLoop(steps, j + 1, Append(merged, st))

\* lines 863-864: st.id = j
Reindex(merged) == [j \in 1..Len(merged) |-> [merged[j] EXCEPT !.id = j - 1]]

\* _build_steps
BuildSteps(edges_meta, cum_dist) ==
    IF edges_meta = <<>> \/ cum_dist = <<>> THEN [steps |-> <<>>, starts |-> {}]
    ELSE LET seg == SegmentLoop(edges_meta, cum_dist, 1, 0, "depart", <<>>, {})
         IN  [steps |-> Reindex(MergeLoop(seg.steps, 1, <<>>)), starts |-> seg.starts]

StepsInit ==
    /\ PathIdle
    /\ BridgeIdle
    /\ RouteIdle
    /\ LoopIdle
    /\ RunnerIdle
    /\ FilterIdle
    /\ CumIdle
    /\ SampleIdle
    /\ ExtraIdle
    /\ turn = <<>>
    /\ man = <<>>
    /\ \E es \in UNION {[1..n -> EdgeShapes] : n \in 1..MaxEdges} :
           /\ WellShaped(es)
           /\ emeta = SpansLoop(es, 1, <<>>, <<>>)
    /\ nav = <<>>
    /\ trip = <<>>
    /\ itin = <<>>

\* calculate_route line 1133
Steps ==
    /\ nav = <<>>
    /\ \E r \in {BuildSteps(emeta.edges_meta, emeta.cum_dist)} :
           nav' = [built |-> TRUE, steps |-> r.steps, starts |-> r.starts]
    /\ UNCHANGED <<turn, man, emeta, trip, itin, pathVars, bridgeVars, routeVars, loopVars,
                   runnerVars, filterVars, cumVars, sampleVars, extraVars>>

StepsNext == Steps

SpecSteps == StepsInit /\ [][StepsNext]_vars

\* C24: a new step begins at edge i (i >= 1) exactly when the name of edge i
\* differs from that of edge i-1 or the bearing delta between the two is, in
\* magnitude, strictly greater than 35 degrees.
C24_BoundaryOverThirtyFive ==
    nav # <<>> =>
        \A i \in 1..(Len(emeta.edges_meta) - 1) :
            (i \in nav.starts) <=>
                \/ emeta.edges_meta[i + 1].name # emeta.edges_meta[i].name
                \/ Abs(AngleDiffDeg(emeta.edges_meta[i + 1].bearing,
                                    emeta.edges_meta[i].bearing)) > 35

StepLength(st) == st.end_distance_m - st.start_distance_m

\* C25: the steps returned are numbered 0, 1, ..., k-1 in order, the first
\* one and no other is a depart, and no step after the first is both shorter
\* than 30 m and on the street of the step before it.
C25_StepsWellFormed ==
    nav # <<>> =>
        /\ Len(nav.steps) >= 1
        /\ \A j \in 1..Len(nav.steps) : nav.steps[j].id = j - 1
        /\ nav.steps[1].maneuver = "depart"
        /\ \A j \in 2..Len(nav.steps) :
               /\ nav.steps[j].maneuver # "depart"
               /\ ~(StepLength(nav.steps[j]) < 30
                    /\ nav.steps[j].street = nav.steps[j - 1].street)

\* three edges on one street with a big turn before each of the last two: the
\* short second step was merged into the first, the third was kept
C25_Witness ==
    /\ nav # <<>>
    /\ Len(emeta.edges_meta) = 3
    /\ nav.starts = {1, 2}
    /\ \A i \in 1..3 : emeta.edges_meta[i].name = "King St"
    /\ Len(nav.steps) = 2
    /\ nav.steps[1].end_distance_m = 40
    /\ nav.steps[2].id = 1

(***************************************************************************)
(* SpecTrip: steps 4 to 6 of calculate_route for one path whose edges all  *)
(* carry a geometry: polyline and spans, cumulative distance and time,     *)
(* totals and steps.  Units are those of SpecCum (metres, milliseconds).   *)
(***************************************************************************)
TripGeometries == {<<0, 100>>, <<0, 50, 100>>, <<100, 250>>, <<100, -50>>, <<100, 120>>}

TripSpeedsKph == {36, 72}

TripHops ==
    {[kind |-> "geom", pts |-> g, speed_kph |-> s, name |-> n] :
        g \in TripGeometries, s \in TripSpeedsKph, n \in StreetNames}

\* cum_dist[-1] if cum_dist else 0.0 (lines 1129-1130)
LastOrZero(list) == IF list = <<>> THEN 0 ELSE list[Len(list)]

TripInit ==
    /\ PathIdle
    /\ BridgeIdle
    /\ RouteIdle
    /\ LoopIdle
    /\ RunnerIdle
    /\ FilterIdle
    /\ CumIdle
    /\ SampleIdle
    /\ ExtraIdle
    /\ turn = <<>>
    /\ man = <<>>
    /\ emeta = <<>>
    /\ nav = <<>>
    /\ trip \in UNION {[1..n -> TripHops] : n \in 1..MaxHops}
    /\ itin = <<>>

\* lines 1122-1133
Synthesize ==
    /\ itin = <<>>
    /\ \E r \in {RoutePolylineAndEdges(trip)} :
       \E cd \in {BuildCumDistance(r.route_coords)} :
       \E ct \in {BuildCumTime(r.route_coords, cd, r.edges_meta)} :
           itin' = [route_coords |-> r.route_coords, edges_meta |-> r.edges_meta,
                    cum_dist |-> cd, cum_time |-> ct,
                    total_distance_m |-> LastOrZero(cd), total_time_ms |-> LastOrZero(ct),
                    steps |-> BuildSteps(r.edges_meta, cd).steps]
    /\ UNCHANGED <<turn, man, emeta, nav, trip, pathVars, bridgeVars, routeVars, loopVars,
                   runnerVars, filterVars, cumVars, sampleVars, extraVars>>

TripNext == Synthesize

SpecTrip == TripInit /\ [][TripNext]_vars

\* a path A -> B -> C synthesized: two edges 100 m and 150 m long, both at
\* 36 km/h, both with the same street name
TwoEdgeTrip ==
    /\ itin # <<>>
    /\ Len(itin.edges_meta) = 2
    /\ itin.cum_dist[itin.edges_meta[1].span_end + 1]
           - itin.cum_dist[itin.edges_meta[1].span_start + 1] = 100
    /\ itin.cum_dist[itin.edges_meta[2].span_end + 1]
           - itin.cum_dist[itin.edges_meta[2].span_start + 1] = 150
    /\ itin.edges_meta[1].speed_kph = 36
    /\ itin.edges_meta[2].speed_kph = 36
    /\ itin.edges_meta[1].name = itin.edges_meta[2].name

\* total_distance_m = 250, total_time_s = 25 and one depart step from 0 to 250 m
OneDepartStep ==
    /\ itin.total_distance_m = 250
    /\ itin.total_time_ms = 25000
    /\ Len(itin.steps) = 1
    /\ itin.steps[1].maneuver = "depart"
    /\ itin.steps[1].start_distance_m = 0
    /\ itin.steps[1].end_distance_m = 250

\* C23 as stated: every such path yields 250 m, 25 s and exactly one step,
\* a depart from 0 to 250 m.
C23_SingleDepartStep == TwoEdgeTrip => OneDepartStep

\* C23 amended: the same holds when the bearings of the two edges differ by
\* less than 35 degrees.
C23_SingleDepartStepWhenStraight ==
    (TwoEdgeTrip
        /\ Abs(AngleDiffDeg(itin.edges_meta[2].bearing, itin.edges_meta[1].bearing)) < 35)
    => OneDepartStep

\* such a straight path, its first edge drawn through an intermediate point
C23_Witness ==
    /\ TwoEdgeTrip
    /\ itin.edges_meta[2].bearing = itin.edges_meta[1].bearing
    /\ Len(itin.route_coords) = 4
    /\ Len(itin.steps) = 1

(***************************************************************************)
(* SpecFault: how calculate_route surfaces failures.  A corridor is told   *)
(* by what the map-data source holds for it: drivable roads, no drivable   *)
(* way at all, or ways that leave a graph without nodes.  The body of the  *)
(* handler is one try block; whatever it raises is caught by               *)
(* "except Exception" and becomes HTTPException(status_code=500).          *)
(***************************************************************************)
MaxResponses == 3

Corridors == {"roads", "no_ways", "no_nodes"}

\* what the rest of the handler does once the graph is loaded
SearchResults == {"path", "no_path"}

\* lru_cache: a cached graph is returned without asking the source; a failed
\* load raises and stores nothing
LoadOrRaise(corridor, cached, reachable) ==
    IF corridor \in cached THEN [raised |-> "none", cached |-> cached]
    ELSE IF ~reachable THEN [raised |-> "NetworkUnavailable", cached |-> cached]
    ELSE IF corridor = "no_ways" THEN [raised |-> "EmptyCorridor", cached |-> cached]
    ELSE IF corridor = "no_nodes" THEN [raised |-> "NoNodesInGraph", cached |-> cached]
    ELSE [raised |-> "none", cached |-> cached \cup {corridor}]

\* lines 1148 and 1173-1174: return RouteResponse(...) or raise HTTPException(500, ...)
Surface(raised) ==
    IF raised = "none" THEN [status_code |-> 200, detail |-> "none"]
    ELSE [status_code |-> 500, detail |-> raised]

FaultInit ==
    /\ PathIdle
    /\ BridgeIdle
    /\ RouteIdle
    /\ LoopIdle
    /\ RunnerIdle
    /\ FilterIdle
    /\ CumIdle
    /\ SampleIdle
    /\ StepIdle
    /\ net \in BOOLEAN
    /\ loadedKeys = {}
    /\ http = <<>>
    /\ ovin = <<>>
    /\ ovout = <<>>

FaultFrame ==
    UNCHANGED <<ovin, ovout, pathVars, bridgeVars, routeVars, loopVars, runnerVars,
                filterVars, cumVars, sampleVars, stepVars>>

\* the map-data source becomes unreachable, or reachable again
SourceChange ==
    /\ Len(http) < MaxResponses
    /\ net' = ~net
    /\ UNCHANGED <<loadedKeys, http>>
    /\ FaultFrame

\* calculate_route for a request in corridor c
FaultRequest(c, found) ==
    /\ Len(http) < MaxResponses
    /\ \E l \in {LoadOrRaise(c, loadedKeys, net)} :
       \E raised \in {IF l.raised # "none" THEN l.raised
                      ELSE IF found = "no_path" THEN "NoPath" ELSE "none"} :
           /\ loadedKeys' = l.cached
           /\ http' = Append(http, [corridor |-> c, raised |-> raised,
                                    status_code |-> Surface(raised).status_code,
                                    detail |-> Surface(raised).detail])
    /\ UNCHANGED net
    /\ FaultFrame

FaultNext ==
    \/ SourceChange
    \/ \E c \in Corridors, found \in SearchResults : FaultRequest(c, found)

SpecFault == FaultInit /\ [][FaultNext]_vars

\* C26: a request that fails on an empty corridor or on a graph without nodes
\* gets a client error (status 4xx), one that fails because the map-data
\* source is unreachable gets a server error (status 5xx), so the two are
\* told apart by the status of the response.
C26_DegenerateRegionIsClientError ==
    \A i \in 1..Len(http) :
        /\ http[i].raised \in {"EmptyCorridor", "NoNodesInGraph"} =>
               http[i].status_code \in 400..499
        /\ http[i].raised = "NetworkUnavailable" => http[i].status_code \in 500..599

(***************************************************************************)
(* SpecOverlay: the background-network list of two requests with the same  *)
(* inputs (include_exploration set) served from one cached graph.  The     *)
(* edges of the graph are told apart by their position in G.edges, so a    *)
(* segment is an edge number and _round_segments leaves it as it is.       *)
(* random.randint is never seeded: each draw is a free choice.             *)
(***************************************************************************)
MaxNetEdges == 4

RECURSIVE Reservoir(_, _, _, _)
\* lines 190-203: the lists the loop can leave in sample after edge number seen
Reservoir(n, cap, seen, sample) ==
    IF seen = n THEN {sample}
    ELSE IF Len(sample) < cap
         THEN Reservoir(n, cap, seen + 1, Append(sample, seen + 1))
         ELSE UNION {Reservoir(n, cap, seen + 1,
                         IF j < cap THEN [sample EXCEPT ![j + 1] = seen + 1] ELSE sample) :
                     j \in 0..seen}

\* _sample_graph_edge_segments(G, max_n): every list it can return
SampleGraphEdgeSegments(n, cap) == Reservoir(n, cap, 0, <<>>)

OverlayInit ==
    /\ PathIdle
    /\ BridgeIdle
    /\ RouteIdle
    /\ LoopIdle
    /\ RunnerIdle
    /\ FilterIdle
    /\ CumIdle
    /\ SampleIdle
    /\ StepIdle
    /\ net = FALSE
    /\ loadedKeys = {}
    /\ http = <<>>
    /\ ovin \in [edges : 0..MaxNetEdges, max_n : 0..MaxNetEdges]
    /\ ovout = <<>>

\* calculate_route lines 1069-1070, for the first and for the second request
NetworkOverlay ==
    /\ Len(ovout) < 2
    /\ \E s \in SampleGraphEdgeSegments(ovin.edges, ovin.max_n) : ovout' = Append(ovout, s)
    /\ UNCHANGED <<net, loadedKeys, http, ovin, pathVars, bridgeVars, routeVars, loopVars,
                   runnerVars, filterVars, cumVars, sampleVars, stepVars>>

OverlayNext == NetworkOverlay

SpecOverlay == OverlayInit /\ [][OverlayNext]_vars

\* C27: two requests with identical inputs served from the same cached graph
\* get identical background-network lists, each within the cap.
C27_OverlayDeterministic ==
    Len(ovout) = 2 =>
        /\ ovout[1] = ovout[2]
        /\ Len(ovout[1]) <= ovin.max_n
        /\ Len(ovout[2]) <= ovin.max_n

\* an endpoint of e lies within RADIUS_M of a blocked point of the call
EndpointBlocked(e) ==
    \E bp \in BlockedTuples(fin.blocked) :
        HaversineBelow(bp, NodePos(e.u), RADIUS_M) \/ HaversineBelow(bp, NodePos(e.v), RADIUS_M)

\* the midpoint of e lies within RADIUS_M of a blocked point of the call
MidpointBlocked(e) ==
    \E bp \in BlockedTuples(fin.blocked) :
        MidpointBelow(bp, NodePos(e.u), NodePos(e.v), RADIUS_M)

\* C28: with a non-empty list of blocked points the edges removed are exactly
\* those with an endpoint within radius_m of a blocked point; an edge with
\* only its midpoint within radius_m of a blocked point is kept.
C28_RemovedIffEndpointNear ==
    (fout.applied /\ fin.blocked # <<>>) =>
        /\ fin.graph.edges \ fout.ret.out.edges = {e \in fin.graph.edges : EndpointBlocked(e)}
        /\ \A e \in fin.graph.edges :
               (MidpointBlocked(e) /\ ~EndpointBlocked(e)) => e \in fout.ret.out.edges

\* one call that removes an edge at a blocked node and keeps an edge whose
\* midpoint alone is near a blocked point
C28_Witness ==
    /\ fout.applied
    /\ \E e \in fin.graph.edges : EndpointBlocked(e) /\ e \notin fout.ret.out.edges
    /\ \E e \in fin.graph.edges :
           MidpointBlocked(e) /\ ~EndpointBlocked(e) /\ e \in fout.ret.out.edges

(***************************************************************************)
(* SpecWorker: _bmsssp_path on one graph for every predecessor list of     *)
(* NodeCount entries, each -1 or a node index, that a response line of the *)
(* worker can carry.  The graphs are those with edges of length 1.         *)
(***************************************************************************)
UnitGraphs ==
    {{[u |-> sl[1], v |-> sl[2], k |-> sl[3], len |-> 1] : sl \in ss} : ss \in SUBSET EdgeSlots}

AnyArrays == [1..NodeCount -> -1..(NodeCount - 1)]

WorkerInit ==
    /\ BridgeIdle
    /\ RouteIdle
    /\ OtherIdle
    /\ G \in UnitGraphs
    /\ src \in Nodes
    /\ dst \in Nodes
    /\ nxTie \in NxOutcomes(G, src, dst)
    /\ res = NoResult

\* _bmsssp_path when the worker answers {"predecessors": a}
ApplyWorkerArray(incl, a) == ApplyBridge(incl, [kind |-> "pred", pred |-> a])

WorkerNext == \E incl \in BOOLEAN : \E a \in AnyArrays : ApplyWorkerArray(incl, a)

SpecWorker == WorkerInit /\ [][WorkerNext]_vars

\* C29: a path that _bmsssp_path returns from the worker's predecessor list
\* starts at the source, ends at the target, repeats no node, and each of its
\* consecutive node pairs is joined by a directed edge of the graph.
C29_WorkerPathFollowsEdges ==
    (res.op = "bridge" /\ res.via = "worker") =>
        /\ res.out.err = "none"
        /\ IsPathIn(G, res.out.path, src, dst)
        /\ \A i, j \in 1..Len(res.out.path) : i # j => res.out.path[i] # res.out.path[j]

(***************************************************************************)
(* SpecStale: SpecCache with a map-data source whose data can change once  *)
(* while the service runs (a road opened or closed in the source's data).  *)
(* A graph already cached is not affected; a graph built after the change  *)
(* is built from the new data.                                             *)
(***************************************************************************)
\* ox.graph_from_bbox reads the source's current data: the data change
MapUpdate(w) ==
    /\ world = WorldFull
    /\ w # WorldFull
    /\ world' = w
    /\ UNCHANGED <<graphCache, msh_spt_cache, last, recent, nkeys, nhits,
                   pathVars, bridgeVars, otherVars>>

StaleNext ==
    \/ NewCorridor
    \/ \E i \in 0..(MaxKeys - 1) : Revisit(i)
    \/ \E w \in Worlds : MapUpdate(w)

SpecStale == CacheInit /\ [][StaleNext]_vars

====
